---------------------------- MODULE Spec2Model ----------------------------
(***************************************************************************)
(* A model of the project-updates-bot view layer.                          *)
(*                                                                         *)
(*   - the project family: buildHeader, buildTaskCard, buildRiskCard,      *)
(*     buildTaskList, buildRiskList (src/src/ui/header.ts), buildProjectNav*)
(*     (src/src/ui/nav.ts), buildProjectTabs (src/src/ui/tabs.ts),         *)
(*     buildHomeView (src/unnamed/part_002), the seed data                 *)
(*     (src/unnamed/part_001) and the home handlers                        *)
(*     (src/src/handlers/home.ts);                                         *)
(*   - the CardItem family: builders.ts (src/README.md, lines 68-455) and  *)
(*     its types and DESIGN_TOKENS (src/ui/README.md, lines 299-402).      *)
(*                                                                         *)
(* Conventions.                                                            *)
(*   - A JavaScript string is a TLA+ string; it is taken apart character   *)
(*     by character with SubSeq and put together with \o.                  *)
(*   - A TLA+ string literal holds ASCII only, so every non-ASCII          *)
(*     character of the source is written as its code point: "<U+1F4CC>"   *)
(*     stands for the pushpin emoji, "<U+2022>" for the bullet, and so on. *)
(*     The same holds for the characters a literal cannot hold: a control  *)
(*     character other than \n \t \r \f ("<U+0008>" is a backspace), a     *)
(*     backquote ("<U+0060>") and a lone surrogate ("<U+D83D>").  A sign   *)
(*     < before characters that would spell a code point is written        *)
(*     "<U+003C>": "<U+003C>U+0008>" is the 8 characters < U + 0 0 0 8 >.  *)
(*   - A JavaScript object is a record (a function on its keys).  A        *)
(*     property whose value is undefined is modelled as an absent key:     *)
(*     reading it gives undefined in both cases and JSON.stringify drops   *)
(*     it.  An optional parameter that is not passed is an absent key too. *)
(*   - The values JSON.parse can return are of any JavaScript type, so     *)
(*     they are tagged: [t |-> "null"], [t |-> "string", v |-> s], ...     *)
(***************************************************************************)
EXTENDS Integers, Sequences, FiniteSets, Bags, TLC

VARIABLES
    call,       \* builder harness: the name of the function called last
    args,       \* builder harness: its arguments
    ret,        \* builder harness: what it returned
    origin,     \* builder harness: the buildHomeView arguments behind a decoded token
    published,  \* handlers: user id -> the home view last published to that user
    passed,     \* handlers: user id -> the parameters that view was built from
    inflight    \* handlers: the bag of the actions whose listener is paused at its ack

vars == <<call, args, ret, origin, published, passed, inflight>>

-----------------------------------------------------------------------------
(* Bounds of the model.                                                    *)

\* Longest list of tasks, risks or rich cards handed to a list builder.
MaxItems == 3
\* Longest list of plain cards handed to buildHome (the overview truncates at 5).
MaxLong == 6
\* Most listeners paused at their ack at once.
MaxInflight == 2

-----------------------------------------------------------------------------
(* JavaScript strings.                                                     *)

Ch(s, i) == SubSeq(s, i, i)

\* s.startsWith(p, i-1), with 1-based i
StartsAt(s, i, p) == i + Len(p) - 1 <= Len(s) /\ SubSeq(s, i, i + Len(p) - 1) = p

\* s.includes(p)
Includes(s, p) == \E i \in 1..(Len(s) + 1) : StartsAt(s, i, p)

\* s.indexOf(p) + 1: the 1-based place of the first occurrence, 0 when there is none
IndexOf(s, p) ==
    IF Includes(s, p)
    THEN CHOOSE i \in 1..(Len(s) + 1) :
            StartsAt(s, i, p) /\ \A j \in 1..(i - 1) : ~StartsAt(s, j, p)
    ELSE 0

\* s.replace(p, q) with a string pattern: the first occurrence only
Replace(s, p, q) ==
    LET i == IndexOf(s, p) IN
    IF i = 0 THEN s
    ELSE SubSeq(s, 1, i - 1) \o q \o SubSeq(s, i + Len(p), Len(s))

UpperChar(c) ==
    LET i == IndexOf("abcdefghijklmnopqrstuvwxyz", c) IN
    IF i = 0 THEN c ELSE Ch("ABCDEFGHIJKLMNOPQRSTUVWXYZ", i)

RECURSIVE ToUpperFrom(_, _)
ToUpperFrom(s, i) ==
    IF i > Len(s) THEN "" ELSE UpperChar(Ch(s, i)) \o ToUpperFrom(s, i + 1)

\* s.toUpperCase()
ToUpperCase(s) == ToUpperFrom(s, 1)

IsWs(c) == c \in {" ", "\n", "\t", "\r"}

RECURSIVE TrimStartAt(_, _)
TrimStartAt(s, i) ==
    IF i <= Len(s) /\ IsWs(Ch(s, i)) THEN TrimStartAt(s, i + 1) ELSE i

RECURSIVE TrimEndAt(_, _)
TrimEndAt(s, j) ==
    IF j >= 1 /\ IsWs(Ch(s, j)) THEN TrimEndAt(s, j - 1) ELSE j

\* s.trim()
Trim(s) == SubSeq(s, TrimStartAt(s, 1), TrimEndAt(s, Len(s)))

RECURSIVE JoinFrom(_, _, _)
JoinFrom(parts, sep, i) ==
    IF i > Len(parts) THEN ""
    ELSE IF i = Len(parts) THEN parts[i]
    ELSE parts[i] \o sep \o JoinFrom(parts, sep, i + 1)

\* parts.join(sep)
Join(parts, sep) == JoinFrom(parts, sep, 1)

\* `${n}` for a number n
NumStr(n) == ToString(n)

\* items.flatMap(f) for the sequence of the f(item), and [...a, ...b, ...]
RECURSIVE Flatten(_)
Flatten(seqs) == IF seqs = <<>> THEN <<>> ELSE Head(seqs) \o Flatten(Tail(seqs))

\* items.filter(keep) is SelectSeq(items, keep)

Has(o, k) == k \in DOMAIN o

-----------------------------------------------------------------------------
(* JSON.stringify and JSON.parse on tagged values.                         *)
(* The grammar covered is all of JSON: objects, arrays, strings with the   *)
(* escapes \" \\ \/ \b \f \n \r \t \uXXXX, numbers with a fraction and an   *)
(* exponent, true, false, null, and white space.                           *)
(* A character that a string of this module cannot hold (a control         *)
(* character other than \n \t \r \f, a character above U+007E, a lone       *)
(* surrogate) is written as its code point, "<U+0008>" for a backspace:    *)
(* the functions below read such a token as the one character it names.    *)
(* A number is the double JSON.parse reads, kept as the digits String     *)
(* writes for it (see the numbers of JavaScript below).                    *)

Undef == [t |-> "undefined"]
Null == [t |-> "null"]
Str(s) == [t |-> "string", v |-> s]
Num(n) == [t |-> "number", v |-> ToString(n), e |-> 0]
Bool(b) == [t |-> "boolean", v |-> b]
\* an object: its properties in insertion order, each [k |-> key, v |-> value]
Obj(props) == [t |-> "object", v |-> props]
Arr(elems) == [t |-> "array", v |-> elems]

(* The numbers of JavaScript: JSON.parse reads a number as the double       *)
(* nearest to it (to the even one of two that are as near, to 0 below the   *)
(* smallest double, to Infinity above the largest), and String(x) writes a  *)
(* double with the fewest digits that read back as it.  A double is kept    *)
(* as those digits: [v, e] stands for v * 10^e, v a string of decimal       *)
(* digits after an optional "-".  An integer has e = 0, any other number    *)
(* has e < 0 and a v that does not end in 0; v is "Infinity" or             *)
(* "-Infinity" for the infinities.  -0 is kept as 0, which is how           *)
(* JSON.stringify and String write it.                                      *)

\* the largest and the smallest member of a non-empty set of integers
SetMax(S) == CHOOSE i \in S : \A j \in S : j <= i
SetMin(S) == CHOOSE i \in S : \A j \in S : i <= j

IsDigit(c) == c \in {"0", "1", "2", "3", "4", "5", "6", "7", "8", "9"}
DigitVal(c) ==
    CASE c = "0" -> 0 [] c = "1" -> 1 [] c = "2" -> 2 [] c = "3" -> 3
      [] c = "4" -> 4 [] c = "5" -> 5 [] c = "6" -> 6 [] c = "7" -> 7
      [] c = "8" -> 8 [] c = "9" -> 9

\* the strings f[lo], ..., f[hi] joined
RECURSIVE Concat(_, _, _)
Concat(f, lo, hi) ==
    IF lo > hi THEN ""
    ELSE IF lo = hi THEN f[lo]
    ELSE Concat(f, lo, (lo + hi) \div 2) \o Concat(f, (lo + hi) \div 2 + 1, hi)

Zeros(k) == Concat([i \in 1..k |-> "0"], 1, k)

\* the digits d without the zeros at their head
StripHead(d) ==
    LET nz == { i \in 1..Len(d) : Ch(d, i) # "0" } IN
    IF nz = {} THEN "" ELSE SubSeq(d, SetMin(nz), Len(d))

\* the number of zeros at the tail of the digits d
TailZeros(d) ==
    LET nz == { i \in 1..Len(d) : Ch(d, i) # "0" } IN
    IF nz = {} THEN Len(d) ELSE Len(d) - SetMax(nz)

(* Natural numbers of any size, for the arithmetic of a double: the limbs  *)
(* of a number in base 1000, the lowest first, none for 0.                 *)

Limb(x, i) == IF i <= Len(x) THEN x[i] ELSE 0

BigTrim(x) ==
    LET nz == { i \in 1..Len(x) : x[i] # 0 } IN
    IF nz = {} THEN <<>> ELSE SubSeq(x, 1, SetMax(nz))

\* the number of the n limbs s, each in 0..1999.  The carry into a limb is
\* that of the nearest limb under it that is not 999: a limb of 1000 or more
\* gives one, a limb of 999 hands on the one it takes
BigRipple(s, n) ==
    LET CarryIn(i) ==
            IF i = 1 THEN 0
            ELSE IF s[i - 1] # 999
            THEN (IF s[i - 1] >= 1000 THEN 1 ELSE 0)
            ELSE LET stop == { j \in 1..(i - 2) : s[j] # 999 } IN
                 IF stop = {} THEN 0
                 ELSE IF s[SetMax(stop)] >= 1000 THEN 1 ELSE 0
    IN  BigTrim(SubSeq([i \in 1..(n + 1) |->
                           ((IF i <= n THEN s[i] ELSE 0) + CarryIn(i)) % 1000],
                       1, n + 1))

\* the order of x and y: -1, 0 or 1
BigCmp(x, y) ==
    LET n == IF Len(x) > Len(y) THEN Len(x) ELSE Len(y)
        diff == { i \in 1..n : Limb(x, i) # Limb(y, i) }
    IN  IF diff = {} THEN 0
        ELSE IF Limb(x, SetMax(diff)) < Limb(y, SetMax(diff)) THEN -1
        ELSE 1

BigAdd(x, y) ==
    LET n == IF Len(x) > Len(y) THEN Len(x) ELSE Len(y) IN
    BigRipple(SubSeq([i \in 1..n |-> Limb(x, i) + Limb(y, i)], 1, n), n)

\* x - y, for x >= y: x plus what y lacks to 1000^n, less 1000^n
BigSub(x, y) ==
    BigTrim(SubSeq(BigRipple(SubSeq([i \in 1..Len(x) |->
                                        x[i] + (999 - Limb(y, i))
                                        + (IF i = 1 THEN 1 ELSE 0)],
                                    1, Len(x)),
                             Len(x)),
                   1, Len(x)))

\* x * y, for numbers of up to 2000 limbs: the columns of the products of
\* the limbs are below 2^31; every column is cut into its four places of
\* 1000, which gives limbs below 3000, and one round of carries brings these
\* below 1002
BigMul(x, y) ==
    LET n == Len(x) + Len(y) - 1
        \* the sum of the x[i] * y[k+1-i] for i in lo..hi
        RECURSIVE Column(_, _, _)
        Column(k, lo, hi) ==
            IF lo > hi THEN 0
            ELSE IF lo = hi THEN x[lo] * y[k + 1 - lo]
            ELSE Column(k, lo, (lo + hi) \div 2)
                 + Column(k, (lo + hi) \div 2 + 1, hi)
        Spread(v) ==
            SubSeq([i \in 1..(n + 3) |->
                       (IF i <= n THEN v[i] % 1000 ELSE 0)
                       + (IF i > 1 /\ i <= n + 1
                          THEN (v[i - 1] \div 1000) % 1000 ELSE 0)
                       + (IF i > 2 /\ i <= n + 2
                          THEN (v[i - 2] \div 1000000) % 1000 ELSE 0)
                       + (IF i > 3 THEN v[i - 3] \div 1000000000 ELSE 0)],
                   1, n + 3)
        Carried(v) ==
            SubSeq([i \in 1..(n + 4) |->
                       (IF i <= n + 3 THEN v[i] % 1000 ELSE 0)
                       + (IF i > 1 THEN v[i - 1] \div 1000 ELSE 0)],
                   1, n + 4)
    IN  IF Len(x) = 0 \/ Len(y) = 0 THEN <<>>
        ELSE BigRipple(Carried(Spread(SubSeq([k \in 1..n |->
                          Column(k, IF k > Len(y) THEN k + 1 - Len(y) ELSE 1,
                                    IF k < Len(x) THEN k ELSE Len(x))],
                          1, n))),
                       n + 4)

\* b to the power n, for b in 1..21: the eighth power of b to the power
\* n \div 8, times b to the power n % 8, which is below 2^31
RECURSIVE BigPow(_, _)
BigPow(b, n) ==
    IF n < 8 THEN BigMul(<<b^n>>, <<1>>)
    ELSE LET Square(x) == BigMul(x, x)
             Eighth(h) ==
                 IF Len(h) = 0 THEN <<>>
                 ELSE BigMul(Square(Square(Square(h))), <<b^(n % 8)>>)
         IN  Eighth(BigPow(b, n \div 8))

\* the number of the decimal digits d
BigFromDigits(d) ==
    BigTrim([i \in 1..((Len(d) + 2) \div 3) |->
        LET hi == Len(d) + 3 - 3 * i IN
        (IF hi >= 3 THEN 100 * DigitVal(Ch(d, hi - 2)) ELSE 0)
        + (IF hi >= 2 THEN 10 * DigitVal(Ch(d, hi - 1)) ELSE 0)
        + DigitVal(Ch(d, hi))])

\* num divided by den, for a quotient below 1000^6: the quotient q and the
\* remainder r
BigDiv(num, den) ==
    LET \* one place of the division, for r below 1000 * d: the limb h of the
        \* quotient r / d and what is left.  The limbs at the head of d give
        \* est, which is h or up to 2 more
        Place(r, d) ==
            LET Left(h) == [h |-> h, r |-> BigSub(r, BigMul(<<h>>, d))]
                Fit(est) ==
                    Left(est - Cardinality({ c \in 0..2 :
                             c < est /\ BigCmp(BigMul(<<est - c>>, d), r) > 0 }))
                Estimate(top, by) ==
                    Fit(IF top \div by > 999 THEN 999 ELSE top \div by)
                Leading(m) ==
                    Estimate(Limb(r, m) + 1000 * Limb(r, m + 1)
                             + 1000000 * Limb(r, m + 2),
                             d[m] + (IF Len(d) >= 2 THEN 1000 * d[Len(d)] ELSE 0))
            IN  Leading(IF Len(d) >= 2 THEN Len(d) - 1 ELSE 1)
        \* the division of r that has i places to go, q the limbs of the
        \* quotient found so far.  Nothing left makes the places to go 0
        RECURSIVE From(_, _, _)
        From(r, i, q) ==
            IF i = 0 \/ Len(r) = 0
            THEN [q |-> BigTrim(SubSeq(<<0, 0, 0, 0, 0, 0>>, 1, i) \o q), r |-> r]
            ELSE LET Rest(p) == From(p.r, i - 1, <<p.h>> \o q)
                 IN  Rest(Place(r, SubSeq(<<0, 0, 0, 0, 0>>, 1, i - 1) \o den))
    IN  From(num, 6, <<>>)

(* A double is q * 2^k with q below 2^53, written [q, k]; k is at least     *)
(* -1074, and q is at least 2^52 unless k = -1074.  [inf |-> TRUE] is       *)
(* Infinity and [zero |-> TRUE] is 0.                                       *)

\* the double nearest to d * 10^e, for digits d with no zero at their head:
\* the binary exponent e2 of the number is 0 to 7 more than the one first
\* taken, e0, and the exponent of the double is e2 - 52, or -1074 if that is
\* more
NearestDouble(d, e) ==
    LET e0 == ((Len(d) + e - 1) * 332193) \div 100000 - 1
        \* the ratio n / d of the number n0 / d0 to 2^e0
        DoubleRatio(n0, d0) ==
            LET Scaled(m) == [n |-> IF e0 < 0 THEN m ELSE n0,
                              d |-> IF e0 < 0 THEN d0 ELSE m]
            IN  Scaled(BigMul(IF e0 < 0 THEN n0 ELSE d0,
                              BigPow(2, IF e0 < 0 THEN 0 - e0 ELSE e0)))
        \* the binary exponent of the number, whose ratio r to 2^e0 lies in
        \* 1 .. 2^7
        DoubleExponent(r) ==
            e0 + Cardinality({ j \in 1..7 : BigCmp(BigMul(<<2^j>>, r.d), r.n) <= 0 })
        \* the number as num / den * 2^k
        DoubleScaled(r, k) ==
            LET Scaled(m) == [num |-> IF e0 >= k THEN m ELSE r.n,
                              den |-> IF e0 >= k THEN r.d ELSE m,
                              k |-> k]
            IN  Scaled(BigMul(IF e0 >= k THEN r.n ELSE r.d,
                              BigPow(2, IF e0 >= k THEN e0 - k ELSE k - e0)))
        \* the double of the quotient div of s.num by s.den: the quotient
        \* rounded to the nearest, and to the even one of two that are as near
        DoubleRounded(s, div) ==
            LET Up(half) ==
                    half > 0 \/ (half = 0 /\ Len(div.q) > 0 /\ div.q[1] % 2 = 1)
                Double(q) ==
                    IF Len(q) = 0 THEN [zero |-> TRUE]
                    ELSE IF BigCmp(q, BigPow(2, 53)) = 0
                    THEN (IF s.k + 1 > 971 THEN [inf |-> TRUE]
                          ELSE [q |-> BigPow(2, 52), k |-> s.k + 1])
                    ELSE [q |-> q, k |-> s.k]
            IN  IF s.k > 971 THEN [inf |-> TRUE]
                ELSE IF Len(div.q) = 0 /\ Len(div.r) = 0 THEN [zero |-> TRUE]
                ELSE Double(IF Up(BigCmp(BigAdd(div.r, div.r), s.den))
                            THEN BigAdd(div.q, <<1>>) ELSE div.q)
        Divided(s) == DoubleRounded(s, BigDiv(s.num, s.den))
        Placed(r, e2) ==
            Divided(DoubleScaled(r, IF e2 - 52 > -1074 THEN e2 - 52 ELSE -1074))
        Near(r) == Placed(r, DoubleExponent(r))
    IN  Near(DoubleRatio(BigMul(BigFromDigits(d),
                                IF e >= 0 THEN BigPow(10, e) ELSE <<1>>),
                         IF e < 0 THEN BigPow(10, 0 - e) ELSE <<1>>))

\* the digits [d, e] of the double f, the fewest that read back as it.  The
\* double q * 2^k is counted in the unit 2^j or 5^-j, j = k - 2, which makes
\* it 4q units: the numbers that read back as the double lie between
\* 4q - below and 4q + 2 units, with the bounds themselves when q is even
ShortestDigits(f) ==
    LET \* the order of the digit strings a and b of one length: -1, 0 or 1
        CmpDigits(a, b) ==
            LET diff == { i \in 1..Len(a) : Ch(a, i) # Ch(b, i) } IN
            IF diff = {} THEN 0
            ELSE IF DigitVal(Ch(a, SetMin(diff))) < DigitVal(Ch(b, SetMin(diff)))
            THEN -1
            ELSE 1
        \* the digits d plus one, in the length of d or one more
        IncDigits(d) ==
            LET low == { i \in 1..Len(d) : Ch(d, i) # "9" } IN
            IF low = {} THEN "1" \o Zeros(Len(d))
            ELSE SubSeq(d, 1, SetMax(low) - 1)
                 \o ToString(DigitVal(Ch(d, SetMax(low))) + 1)
                 \o Zeros(Len(d) - SetMax(low))
        \* the decimal digits of x, "" for 0
        BigToDigits(x) ==
            IF Len(x) = 0 THEN ""
            ELSE StripHead(Concat([i \in 1..Len(x) |->
                                      LET v == x[Len(x) + 1 - i] IN
                                      IF v < 10 THEN "00" \o ToString(v)
                                      ELSE IF v < 100 THEN "0" \o ToString(v)
                                      ELSE ToString(v)],
                                  1, Len(x)))
        \* of the numbers with the fewest digits between lo and hi, bounds
        \* included, the one nearest to x; ls, xs, hs are the digits of lo, x,
        \* hi in one length, lo >= 1, counted in units of 10^-scale.  The last
        \* p digits are dropped: down is x cut there and up is one more
        ShortestBetween(ls, xs, hs, scale) ==
            LET Trimmed(best, p) ==
                    [d |-> SubSeq(StripHead(best), 1,
                                  Len(StripHead(best)) - TailZeros(best)),
                     e |-> p - scale + TailZeros(best)]
                Pick(down, up, p, downOk, upOk, half) ==
                    Trimmed(IF (IF downOk /\ upOk
                                THEN half > 0
                                     \/ (half = 0
                                         /\ DigitVal(Ch(down, Len(down))) % 2 = 1)
                                ELSE upOk)
                            THEN up ELSE down,
                            p)
                Above(c, p) == c > 0 \/ (c = 0 /\ TailZeros(ls) >= p)
                Round(down, up, p) ==
                    Pick(down, up, p,
                         Above(CmpDigits(down, SubSeq(ls, 1, Len(down))), p),
                         Len(up) = Len(down)
                         /\ CmpDigits(up, SubSeq(hs, 1, Len(down))) <= 0,
                         IF p = 0 THEN -1
                         ELSE CmpDigits(SubSeq(xs, Len(down) + 1, Len(hs)),
                                        "5" \o Zeros(p - 1)))
                Down(down, p) == Round(down, IncDigits(down), p)
                Cut(p) == Down(SubSeq(xs, 1, Len(hs) - p), p)
                diff == { i \in 1..Len(hs) : Ch(ls, i) # Ch(hs, i) }
            IN  IF diff = {} THEN Cut(TailZeros(ls))
                ELSE Cut(IF Len(hs) - SetMin(diff) > TailZeros(ls)
                         THEN Len(hs) - SetMin(diff) ELSE TailZeros(ls))
        ShortestUnit(unit, below) ==
            LET Times(m) == BigMul(m, unit)
                Padded(x, lo, hi) ==
                    ShortestBetween(Zeros(Len(hi) - Len(lo)) \o lo,
                                    Zeros(Len(hi) - Len(x)) \o x, hi,
                                    IF f.k >= 2 THEN 0 ELSE 2 - f.k)
                Around(q4, inside) ==
                    Padded(BigToDigits(Times(q4)),
                           BigToDigits(BigAdd(Times(BigSub(q4, <<below>>)), inside)),
                           BigToDigits(BigSub(Times(BigAdd(q4, <<2>>)), inside)))
            IN  Around(BigMul(<<4>>, f.q), IF f.q[1] % 2 = 0 THEN <<>> ELSE <<1>>)
    IN  IF "zero" \in DOMAIN f \/ "inf" \in DOMAIN f THEN f
        ELSE ShortestUnit(BigPow(IF f.k >= 2 THEN 2 ELSE 5,
                                 IF f.k >= 2 THEN f.k - 2 ELSE 2 - f.k),
                          \* q is 2^52
                          IF f.q = <<496, 370, 627, 599, 503, 4>> /\ f.k > -1074
                          THEN 1 ELSE 2)

\* the double read from the digits d (no zero at the head or the tail, at
\* least one digit) times 10^e, as [d, e], [zero |-> TRUE] or [inf |-> TRUE]:
\* a number of up to 15 digits well inside the range of the doubles is the
\* shortest one that reads back as its double
ReadDouble(d, e) ==
    IF Len(d) + e > 309 THEN [inf |-> TRUE]
    ELSE IF Len(d) + e < -323 THEN [zero |-> TRUE]
    ELSE IF Len(d) <= 15 /\ Len(d) + e >= -306 /\ Len(d) + e <= 308
    THEN [d |-> d, e |-> e]
    ELSE ShortestDigits(NearestDouble(d, e))

-----------------------------------------------------------------------------
(* The strings of JSON.                                                     *)

HexChars == "0123456789abcdefABCDEF"
IsHex(c) == Len(c) = 1 /\ IndexOf(HexChars, c) # 0
HexVal(c) ==
    LET place == IndexOf(HexChars, c) IN
    IF place <= 16 THEN place - 1 ELSE place - 7

\* the value of the hexadecimal digits s[i..j]
RECURSIVE HexNum(_, _, _)
HexNum(s, i, j) ==
    IF j < i THEN 0 ELSE 16 * HexNum(s, i, j - 1) + HexVal(Ch(s, j))

AllHex(s, i, j) == j <= Len(s) /\ \A k \in i..j : IsHex(Ch(s, k))

\* n in hexadecimal with the digits of the alphabet, at least width digits
RECURSIVE HexStr(_, _, _)
HexStr(n, width, alphabet) ==
    IF n < 16 /\ width <= 1 THEN Ch(alphabet, n + 1)
    ELSE HexStr(n \div 16, width - 1, alphabet) \o Ch(alphabet, (n % 16) + 1)

\* a code point of n digits is written at place i
IsCodePoint(s, i, n) == AllHex(s, i + 3, i + 2 + n) /\ StartsAt(s, i + 3 + n, ">")

\* the length of the code point written at place i (8 to 10), 0 when none is
CodePointLen(s, i) ==
    IF ~StartsAt(s, i, "<U+") THEN 0
    ELSE IF IsCodePoint(s, i, 4) THEN 8
    ELSE IF IsCodePoint(s, i, 5) THEN 9
    ELSE IF IsCodePoint(s, i, 6) THEN 10
    ELSE 0

\* the code point written at place i in n characters
CodePointAt(s, i, n) == HexNum(s, i + 3, i + n - 2)

\* String.fromCodePoint(n): the characters U+0020..U+005F and U+0061..U+007E
\* are themselves (a string of this module cannot hold U+0060)
FromCodePoint(n) ==
    CASE n = 9 -> "\t"
      [] n = 10 -> "\n"
      [] n = 12 -> "\f"
      [] n = 13 -> "\r"
      [] n >= 32 /\ n <= 95 -> Ch(" !\"#$%&'()*+,-./0123456789:;<=>?@ABCDEFGHIJKLMNOPQRSTUVWXYZ[\\]^_",
                                      n - 31)
      [] n >= 97 /\ n <= 126 -> Ch("abcdefghijklmnopqrstuvwxyz{|}~", n - 96)
      [] OTHER -> "<U+" \o HexStr(n, 4, "0123456789ABCDEF") \o ">"

\* the escape JSON.stringify writes for the code unit n, a control character
\* or a lone surrogate
EscapeCode(n) ==
    CASE n = 8 -> "\\b"
      [] n = 9 -> "\\t"
      [] n = 10 -> "\\n"
      [] n = 12 -> "\\f"
      [] n = 13 -> "\\r"
      [] OTHER -> "\\u" \o HexStr(n, 4, "0123456789abcdef")

\* the escaped form of the character c
EscapeChar(c) ==
    CASE c = "\"" -> "\\\""
      [] c = "\\" -> "\\\\"
      [] c = "\n" -> "\\n"
      [] c = "\t" -> "\\t"
      [] c = "\r" -> "\\r"
      [] c = "\f" -> "\\f"
      [] OTHER -> c

\* the escaped form of s from place i on: a control character and a lone
\* surrogate, written by their code points, take the escape of their code
RECURSIVE EscapeFrom(_, _)
EscapeFrom(s, i) ==
    IF i > Len(s) THEN ""
    ELSE LET n == CodePointLen(s, i) IN
         IF /\ n # 0
            /\ \/ CodePointAt(s, i, n) < 32
               \/ CodePointAt(s, i, n) >= 55296 /\ CodePointAt(s, i, n) <= 57343
         THEN EscapeCode(CodePointAt(s, i, n)) \o EscapeFrom(s, i + n)
         ELSE EscapeChar(Ch(s, i)) \o EscapeFrom(s, i + 1)

Quote(s) == "\"" \o EscapeFrom(s, 1) \o "\""

\* String(x) for a number: s are its digits without the zeros at their
\* tail, and n is the place of the point, counted from the head of s
NumberToString(x) ==
    IF x.v \in {"0", "Infinity", "-Infinity"} THEN x.v
    ELSE LET neg == Ch(x.v, 1) = "-"
             all == IF neg THEN SubSeq(x.v, 2, Len(x.v)) ELSE x.v
             s == SubSeq(all, 1, Len(all) - TailZeros(all))
             k == Len(s)
             n == Len(all) + x.e
             text ==
                 IF k <= n /\ n <= 21 THEN s \o Zeros(n - k)
                 ELSE IF 0 < n /\ n <= 21
                 THEN SubSeq(s, 1, n) \o "." \o SubSeq(s, n + 1, k)
                 ELSE IF -6 < n /\ n <= 0 THEN "0." \o Zeros(0 - n) \o s
                 ELSE Ch(s, 1)
                      \o (IF k > 1 THEN "." \o SubSeq(s, 2, k) ELSE "")
                      \o (IF n >= 1 THEN "e+" \o ToString(n - 1)
                          ELSE "e-" \o ToString(1 - n))
         IN  (IF neg THEN "-" ELSE "") \o text

RECURSIVE JSONstringify(_)
JSONstringify(x) ==
    CASE x.t = "string" -> Quote(x.v)
      [] x.t = "number" ->
            (IF x.v \in {"Infinity", "-Infinity"} THEN "null"
             ELSE NumberToString(x))
      [] x.t = "boolean" -> (IF x.v THEN "true" ELSE "false")
      [] x.t = "null" -> "null"
      [] x.t = "array" ->
            "[" \o Join([i \in 1..Len(x.v) |->
                           IF x.v[i].t = "undefined" THEN "null"
                           ELSE JSONstringify(x.v[i])], ",") \o "]"
      [] x.t = "object" ->
            LET kept == SelectSeq(x.v, LAMBDA p : p.v.t # "undefined") IN
            "{" \o Join([i \in 1..Len(kept) |->
                           Quote(kept[i].k) \o ":" \o JSONstringify(kept[i].v)], ",")
                \o "}"

Fail == [ok |-> FALSE]
Ok(v, n) == [ok |-> TRUE, v |-> v, n |-> n]

RECURSIVE SkipWs(_, _)
SkipWs(s, i) == IF i <= Len(s) /\ IsWs(Ch(s, i)) THEN SkipWs(s, i + 1) ELSE i

\* the character of the one-letter escape \e
Unescape(e) ==
    CASE e = "n" -> "\n"
      [] e = "t" -> "\t"
      [] e = "r" -> "\r"
      [] e = "f" -> "\f"
      [] e = "b" -> FromCodePoint(8)
      [] OTHER -> e

\* acc followed by the code unit or character c.  A JavaScript string is a
\* sequence of UTF-16 code units: a high surrogate at the end of acc and a low
\* surrogate c are the two halves of one character, however each was written.
\* The characters < U + 0 0 0 8 > are eight characters and not the one they
\* would spell: when the sign > ends such a spelling, its sign < is written
\* by its own code point, "<U+003C>"
AppendUnit(acc, c) ==
    IF /\ Len(c) = 8
       /\ Len(acc) >= 8
       /\ CodePointLen(acc, Len(acc) - 7) = 8
       /\ CodePointAt(acc, Len(acc) - 7, 8) >= 55296
       /\ CodePointAt(acc, Len(acc) - 7, 8) <= 56319
       /\ CodePointLen(c, 1) = 8
       /\ CodePointAt(c, 1, 8) >= 56320
       /\ CodePointAt(c, 1, 8) <= 57343
    THEN SubSeq(acc, 1, Len(acc) - 8)
         \o FromCodePoint(65536 + (CodePointAt(acc, Len(acc) - 7, 8) - 55296) * 1024
                                 + (CodePointAt(c, 1, 8) - 56320))
    ELSE IF c = ">"
    THEN LET t == acc \o c
             spelt == { n \in 8..10 : n <= Len(t) /\ CodePointLen(t, Len(t) - n + 1) = n }
         IN  IF spelt = {} THEN t
             ELSE SubSeq(t, 1, Len(t) - SetMin(spelt))
                  \o "<U+003C>"
                  \o SubSeq(t, Len(t) - SetMin(spelt) + 2, Len(t))
    ELSE acc \o c

\* the escape \uXXXX at place i (of the backslash): its code unit and the
\* place after it
ScanUnicode(s, i) ==
    IF ~AllHex(s, i + 2, i + 5) THEN Fail
    ELSE Ok(FromCodePoint(HexNum(s, i + 2, i + 5)), i + 6)

\* the characters of a string literal from place i (after the opening quote);
\* u is what ScanUnicode read, n the length of a character written raw by its
\* code point, and a control character written raw ends the reading
RECURSIVE ScanString(_, _, _)
ScanString(s, i, acc) ==
    IF i > Len(s) THEN Fail
    ELSE LET c == Ch(s, i)
             n == CodePointLen(s, i)
             ScanAfter(u) ==
                 IF u.ok THEN ScanString(s, u.n, AppendUnit(acc, u.v)) ELSE Fail
             RawControl ==
                 \/ c \in {"\n", "\t", "\r", "\f"}
                 \/ n # 0 /\ CodePointAt(s, i, n) < 32
         IN
         IF c = "\"" THEN Ok(acc, i + 1)
         ELSE IF c = "\\"
         THEN IF i + 1 <= Len(s)
                 /\ Ch(s, i + 1) \in {"\"", "\\", "/", "b", "f", "n", "r", "t"}
              THEN ScanString(s, i + 2, AppendUnit(acc, Unescape(Ch(s, i + 1))))
              ELSE IF i + 1 <= Len(s) /\ Ch(s, i + 1) = "u"
              THEN ScanAfter(ScanUnicode(s, i))
              ELSE Fail
         ELSE IF RawControl THEN Fail
         ELSE IF n # 0
         THEN ScanString(s, i + n, AppendUnit(acc, FromCodePoint(CodePointAt(s, i, n))))
         ELSE ScanString(s, i + 1, AppendUnit(acc, c))

\* [0-9]*  from place i: the digits and the place after them
ScanDigits(s, i) ==
    LET stop == { j \in i..Len(s) : ~IsDigit(Ch(s, j)) }
        n == IF stop = {} THEN Len(s) + 1 ELSE SetMin(stop)
    IN  Ok(SubSeq(s, i, n - 1), n)

\* the number that the digits m times 10^e read as, negated when neg
Dec(neg, m, e) ==
    LET sign == IF neg THEN "-" ELSE ""
        d == StripHead(m)
        Value(r) ==
            IF "zero" \in DOMAIN r THEN [t |-> "number", v |-> "0", e |-> 0]
            ELSE IF "inf" \in DOMAIN r
            THEN [t |-> "number", v |-> sign \o "Infinity", e |-> 0]
            ELSE IF r.e >= 0
            THEN [t |-> "number", v |-> sign \o r.d \o Zeros(r.e), e |-> 0]
            ELSE [t |-> "number", v |-> sign \o r.d, e |-> r.e]
    IN  IF d = "" THEN [t |-> "number", v |-> "0", e |-> 0]
        ELSE Value(ReadDouble(SubSeq(d, 1, Len(d) - TailZeros(d)),
                              e + TailZeros(d)))

\* ( [eE] [+-]? [0-9]+ )?  from place i: the exponent, 0 when there is none,
\* and the place after it.  The exponent is read in full up to 999999999; a
\* longer one is read as 10^9, more than the characters a string can hold
\* (2^29 - 24, src/src/handlers/home.ts runs on Node.js), so that no
\* mantissa of the text brings the number back among the doubles
NumberExp(s, i) ==
    IF i <= Len(s) /\ Ch(s, i) \in {"e", "E"}
    THEN LET signed == i + 1 <= Len(s) /\ Ch(s, i + 1) \in {"+", "-"}
             k == IF signed THEN i + 2 ELSE i + 1
             Value(b) == Limb(b, 1) + 1000 * Limb(b, 2) + 1000000 * Limb(b, 3)
             ExpValue(d) ==
                 IF Len(d) > 9 THEN 1000000000 ELSE Value(BigFromDigits(d))
             Pow(pow) ==
                 IF pow.n = k THEN Fail
                 ELSE Ok((IF signed /\ Ch(s, i + 1) = "-" THEN -1 ELSE 1)
                         * ExpValue(StripHead(pow.v)), pow.n)
         IN  Pow(ScanDigits(s, k))
    ELSE Ok(0, i)

\* ( . [0-9]+ )?  after the integer part int: the digits m of the mantissa,
\* f of them in its fraction, and the place after them
NumberFrac(s, int) ==
    IF int.n <= Len(s) /\ Ch(s, int.n) = "."
    THEN LET Frac(frac) ==
                 IF frac.n = int.n + 1 THEN Fail
                 ELSE Ok([m |-> int.v \o frac.v, f |-> Len(frac.v)], frac.n)
         IN  Frac(ScanDigits(s, int.n + 1))
    ELSE Ok([m |-> int.v, f |-> 0], int.n)

\* -? ( 0 | [1-9][0-9]* ) ( . [0-9]+ )? ( [eE] [+-]? [0-9]+ )?
ScanNumber(s, i) ==
    LET neg == Ch(s, i) = "-"
        j == IF neg THEN i + 1 ELSE i
        mant == NumberFrac(s, IF Ch(s, j) = "0" THEN Ok("0", j + 1)
                              ELSE ScanDigits(s, j))
        pow == NumberExp(s, mant.n)
    IN  IF j > Len(s) \/ ~IsDigit(Ch(s, j)) THEN Fail
        ELSE IF ~mant.ok THEN Fail
        ELSE IF ~pow.ok THEN Fail
        ELSE Ok(Dec(neg, mant.v.m, pow.v - mant.v.f), pow.n)

RECURSIVE ParseValue(_, _), ParseMembers(_, _, _), ParseElements(_, _, _)

\* the member of the key and the value v read, and what follows it: the end
\* of the object or another member
MemberValue(s, key, v, acc) ==
    IF ~v.ok THEN Fail
    ELSE LET m == SkipWs(s, v.n)
             acc2 == Append(acc, [k |-> key, v |-> v.v])
         IN  IF m > Len(s) THEN Fail
             ELSE IF Ch(s, m) = "}" THEN Ok(Obj(acc2), m + 1)
             ELSE IF Ch(s, m) = "," THEN ParseMembers(s, SkipWs(s, m + 1), acc2)
             ELSE Fail

\* the key k read, the colon and the value after it
MemberKey(s, k, acc) ==
    IF ~k.ok THEN Fail
    ELSE LET j == SkipWs(s, k.n) IN
         IF j > Len(s) \/ Ch(s, j) # ":" THEN Fail
         ELSE MemberValue(s, k.v, ParseValue(s, j + 1), acc)

\* the element v read, and what follows it: the end of the array or another
\* element
ElementValue(s, v, acc) ==
    IF ~v.ok THEN Fail
    ELSE LET m == SkipWs(s, v.n)
             acc2 == Append(acc, v.v)
         IN  IF m > Len(s) THEN Fail
             ELSE IF Ch(s, m) = "]" THEN Ok(Arr(acc2), m + 1)
             ELSE IF Ch(s, m) = "," THEN ParseElements(s, m + 1, acc2)
             ELSE Fail

ParseValue(s, i0) ==
    LET i == SkipWs(s, i0) IN
    IF i > Len(s) THEN Fail
    ELSE LET c == Ch(s, i)
             \* the string literal read as a value
             StringValue(r) == IF r.ok THEN Ok(Str(r.v), r.n) ELSE Fail
         IN
         CASE c = "{" ->
                LET j == SkipWs(s, i + 1) IN
                IF j <= Len(s) /\ Ch(s, j) = "}" THEN Ok(Obj(<<>>), j + 1)
                ELSE ParseMembers(s, j, <<>>)
           [] c = "[" ->
                LET j == SkipWs(s, i + 1) IN
                IF j <= Len(s) /\ Ch(s, j) = "]" THEN Ok(Arr(<<>>), j + 1)
                ELSE ParseElements(s, j, <<>>)
           [] c = "\"" -> StringValue(ScanString(s, i + 1, ""))
           [] c = "-" \/ IsDigit(c) -> ScanNumber(s, i)
           [] StartsAt(s, i, "null") -> Ok(Null, i + 4)
           [] StartsAt(s, i, "true") -> Ok(Bool(TRUE), i + 4)
           [] StartsAt(s, i, "false") -> Ok(Bool(FALSE), i + 5)
           [] OTHER -> Fail

\* "key" : value ( , "key" : value )* }   from the place i of the first key
ParseMembers(s, i, acc) ==
    IF i > Len(s) \/ Ch(s, i) # "\"" THEN Fail
    ELSE MemberKey(s, ScanString(s, i + 1, ""), acc)

\* value ( , value )* ]
ParseElements(s, i, acc) == ElementValue(s, ParseValue(s, i), acc)

\* JSON.parse(s): [threw |-> TRUE] for a SyntaxError, the value otherwise.
\* The text is the value r read, with nothing but white space after it
JSONparse(s) ==
    LET WholeText(r) ==
            IF r.ok /\ SkipWs(s, r.n) > Len(s)
            THEN [threw |-> FALSE, v |-> r.v]
            ELSE [threw |-> TRUE]
    IN  WholeText(ParseValue(s, 1))

\* o.k for a value o that is not null or undefined: the last property named k
\* of an object, undefined for a missing property and for a primitive
GetProp(o, k) ==
    IF o.t = "object" /\ \E i \in 1..Len(o.v) : o.v[i].k = k
    THEN LET i == CHOOSE i \in 1..Len(o.v) :
                      o.v[i].k = k /\ \A j \in (i + 1)..Len(o.v) : o.v[j].k # k
         IN  o.v[i].v
    ELSE Undef

-----------------------------------------------------------------------------
(* Objects with optional properties.                                       *)

\* the object with no property
Empty == [k \in {} |-> 0]

\* the property k: v when c holds, nothing otherwise
Opt(k, c, v) == IF c THEN k :> v ELSE Empty

\* o.k ?? d
OrElse(o, k, d) == IF Has(o, k) THEN o[k] ELSE d

\* a string is truthy when it is not empty
Truthy(s) == s # ""

Mrkdwn(s) == [type |-> "mrkdwn", text |-> s]
PlainText(s) == [type |-> "plain_text", text |-> s]
Divider == [type |-> "divider"]

\* the non-ASCII characters of the sources, by code point
BULLET == "<U+2022>"
WHITE_BULLET == "<U+25E6>"
EM_DASH == "<U+2014>"
TIMES == "<U+00D7>"
BLUE_BOOK == "<U+1F4D8>"
DIVIDERS == "<U+1F5C2><U+FE0F>"
WARNING == "<U+26A0><U+FE0F>"
COMPASS == "<U+1F9ED>"

-----------------------------------------------------------------------------
(* src/unnamed/part_001: the seed data.                                    *)

projects ==
    << [id |-> "p1", name |-> "AI Project Hub",
        description |-> "Slack-native PM hub with Notion-like UI."],
       [id |-> "p2", name |-> "Website Refresh",
        description |-> "New marketing site & docs."] >>

tasks ==
    << [id |-> "t1", projectId |-> "p1", title |-> "Home view scaffold",
        status |-> "In Progress", priority |-> "High", owner |-> "U12345",
        description |-> "Build header, nav, tabs, and summary.",
        dueDate |-> "2025-10-15", lastUpdated |-> "2025-10-10"],
       [id |-> "t2", projectId |-> "p1", title |-> "Task card component",
        status |-> "To Do", priority |-> "Medium", owner |-> "U12345",
        description |-> "Reusable builder for task rows/cards.",
        lastUpdated |-> "2025-10-10"],
       [id |-> "t3", projectId |-> "p2", title |-> "Page inventory",
        status |-> "Blocked", priority |-> "High", owner |-> "U67890",
        description |-> "List current pages and target IA.",
        dueDate |-> "2025-10-20", lastUpdated |-> "2025-10-09"] >>

risks ==
    << [id |-> "r1", projectId |-> "p1", title |-> "Slack rate limits",
        description |-> "Rapid view updates might hit rate limits.",
        likelihood |-> "Medium", impact |-> "High", owner |-> "U12345",
        mitigationPlan |-> "Batch updates; debounce actions.",
        status |-> "Open", lastUpdated |-> "2025-10-10"],
       [id |-> "r2", projectId |-> "p2", title |-> "Asset delays",
        description |-> "Design assets may arrive late.",
        likelihood |-> "High", impact |-> "Medium", owner |-> "U67890",
        status |-> "Open", lastUpdated |-> "2025-10-08"] >>

-----------------------------------------------------------------------------
(* src/src/ui/header.ts                                                    *)

\* buildHeader({ icon?, title, subtitle? }): one section block
buildHeader(cfg) ==
    [type |-> "section",
     block_id |-> "hdr",
     text |-> Mrkdwn(Trim("*" \o OrElse(cfg, "icon", BLUE_BOOK) \o " " \o cfg.title
                          \o "*\n_" \o OrElse(cfg, "subtitle", "") \o "_"))]

buildTaskCard(t) ==
    << [type |-> "section",
        block_id |-> "task_" \o t.id,
        text |-> Mrkdwn("*" \o DIVIDERS \o " " \o t.title \o "*  _(" \o t.status
                        \o " " \o BULLET \o " " \o t.priority \o ")_\n"
                        \o OrElse(t, "description", "")),
        accessory |->
            [type |-> "overflow",
             action_id |-> "task_menu_" \o t.id,
             options |->
                << [text |-> PlainText("Open"), value |-> "open_" \o t.id],
                   [text |-> PlainText("Edit"), value |-> "edit_" \o t.id],
                   [text |-> PlainText("Change status"), value |-> "status_" \o t.id],
                   [text |-> PlainText("Archive"), value |-> "archive_" \o t.id] >>]],
       [type |-> "context",
        elements |->
            << Mrkdwn("*Owner:* <@" \o t.owner \o ">  " \o BULLET \o "  *Due:* "
                      \o OrElse(t, "dueDate", EM_DASH) \o "  " \o BULLET
                      \o "  *Updated:* " \o t.lastUpdated) >>],
       Divider >>

buildRiskCard(r) ==
    << [type |-> "section",
        block_id |-> "risk_" \o r.id,
        text |-> Mrkdwn("*" \o WARNING \o " " \o r.title \o "*  _(" \o r.likelihood
                        \o " " \o TIMES \o " " \o r.impact \o ")_\n" \o r.description),
        accessory |->
            [type |-> "overflow",
             action_id |-> "risk_menu_" \o r.id,
             options |->
                << [text |-> PlainText("Open"), value |-> "open_" \o r.id],
                   [text |-> PlainText("Edit"), value |-> "edit_" \o r.id],
                   [text |-> PlainText("Update status"), value |-> "status_" \o r.id],
                   [text |-> PlainText("Close risk"), value |-> "close_" \o r.id] >>]],
       [type |-> "context",
        elements |->
            << Mrkdwn("*Owner:* <@" \o r.owner \o ">  " \o BULLET \o "  *Status:* "
                      \o r.status \o "  " \o BULLET \o "  *Updated:* "
                      \o r.lastUpdated) >>],
       Divider >>

\* items.flatMap(buildTaskCard)
buildTaskList(items) == Flatten([i \in 1..Len(items) |-> buildTaskCard(items[i])])

\* items.flatMap(buildRiskCard)
buildRiskList(items) == Flatten([i \in 1..Len(items) |-> buildRiskCard(items[i])])

-----------------------------------------------------------------------------
(* src/src/ui/nav.ts                                                       *)

\* buildProjectNav marking every row once an id is selected (the mutant of C16)
buildProjectNav_allMarked(ps, selectedId) ==
    << [type |-> "context", elements |-> << Mrkdwn("*Projects*") >>] >>
    \o [i \in 1..Len(ps) |->
          LET p == ps[i]
              isSel == selectedId # <<>>
          IN  [type |-> "section",
               block_id |-> "nav_" \o p.id,
               text |-> Mrkdwn((IF isSel THEN BULLET ELSE WHITE_BULLET)
                               \o " *" \o p.name \o "*"),
               accessory |->
                   [type |-> "button",
                    action_id |-> "nav_open_" \o p.id,
                    text |-> PlainText(IF isSel THEN "Open" ELSE "View"),
                    value |-> p.id]]]
    \o << Divider >>

\* buildProjectNav(projects, selectedId?): selectedId is <<>> (undefined) or <<id>>
buildProjectNav(ps, selectedId) ==
    << [type |-> "context", elements |-> << Mrkdwn("*Projects*") >>] >>
    \o [i \in 1..Len(ps) |->
          LET p == ps[i]
              isSel == selectedId = <<p.id>>
          IN  [type |-> "section",
               block_id |-> "nav_" \o p.id,
               text |-> Mrkdwn((IF isSel THEN BULLET ELSE WHITE_BULLET)
                               \o " *" \o p.name \o "*"),
               accessory |->
                   [type |-> "button",
                    action_id |-> "nav_open_" \o p.id,
                    text |-> PlainText(IF isSel THEN "Open" ELSE "View"),
                    value |-> p.id]]]
    \o << Divider >>

-----------------------------------------------------------------------------
(* src/src/ui/tabs.ts                                                      *)

ProjectTabList ==
    << [text |-> "Summary", value |-> "summary"],
       [text |-> "Tasks", value |-> "tasks"],
       [text |-> "Risks", value |-> "risks"] >>

\* buildProjectTabs styling every button (the mutant of C13)
buildProjectTabs_allPrimary(active) ==
    [type |-> "actions",
     block_id |-> "tabs",
     elements |->
        [i \in 1..Len(ProjectTabList) |->
            LET t == ProjectTabList[i] IN
            [type |-> "button",
             action_id |-> "tab_" \o t.value,
             text |-> PlainText(t.text),
             value |-> t.value,
             style |-> "primary"]]]

buildProjectTabs(active) ==
    [type |-> "actions",
     block_id |-> "tabs",
     elements |->
        [i \in 1..Len(ProjectTabList) |->
            LET t == ProjectTabList[i] IN
            [type |-> "button",
             action_id |-> "tab_" \o t.value,
             text |-> PlainText(t.text),
             value |-> t.value]
            @@ Opt("style", active = t.value, "primary")]]

-----------------------------------------------------------------------------
(* src/unnamed/part_002: ui/views.ts                                       *)

\* the body blocks of buildHomeView (lines 30-63)
bodyBlocks(params) ==
    LET activeTab == OrElse(params, "activeTab", "summary")
        ts == OrElse(params, "tasks", <<>>)
        rs == OrElse(params, "risks", <<>>)
    IN  IF ~Has(params, "selectedProject")
        THEN << [type |-> "section",
                 block_id |-> "empty",
                 text |-> Mrkdwn("*" \o COMPASS \o " No project selected*\n"
                                 \o "_Select one from the left to view details._"),
                 accessory |-> [type |-> "button", action_id |-> "new_project",
                                text |-> PlainText("New Project")]] >>
        ELSE IF activeTab = "summary"
        THEN << [type |-> "section",
                 text |-> Mrkdwn("*Project Summary*\n"
                                 \o OrElse(params.selectedProject, "description",
                                           "_No description_"))],
                [type |-> "context",
                 elements |-> << Mrkdwn("*Tasks:* " \o NumStr(Len(ts)) \o "  " \o BULLET
                                        \o "  *Risks:* " \o NumStr(Len(rs))) >>] >>
        ELSE IF activeTab = "tasks"
        THEN << [type |-> "section", text |-> Mrkdwn("*Tasks*"),
                 accessory |-> [type |-> "button", action_id |-> "task_new",
                                text |-> PlainText("New Task")]],
                Divider >>
             \o (IF Len(ts) # 0 THEN buildTaskList(ts)
                 ELSE << [type |-> "section",
                          text |-> Mrkdwn("*No tasks yet*\n"
                                          \o "_Add your first task to get rolling._"),
                          accessory |-> [type |-> "button", action_id |-> "task_new",
                                         text |-> PlainText("Add Task")]] >>)
        ELSE IF activeTab = "risks"
        THEN << [type |-> "section", text |-> Mrkdwn("*Risks*"),
                 accessory |-> [type |-> "button", action_id |-> "risk_new",
                                text |-> PlainText("New Risk")]],
                Divider >>
             \o (IF Len(rs) # 0 THEN buildRiskList(rs)
                 ELSE << [type |-> "section",
                          text |-> Mrkdwn("*No risks captured*\n"
                                   \o "_Add the first risk to start mitigation planning._"),
                          accessory |-> [type |-> "button", action_id |-> "risk_new",
                                         text |-> PlainText("Add Risk")]] >>)
        ELSE << >>

\* the HomeState that buildHomeView serializes (lines 65-68)
HomeState(params) ==
    Obj(<< [k |-> "selectedProjectId",
            v |-> IF Has(params, "selectedProject")
                  THEN Str(params.selectedProject.id) ELSE Undef],
           [k |-> "activeTab", v |-> Str(OrElse(params, "activeTab", "summary"))] >>)

\* a tab bar emitted whether or not a project is selected (the mutant of C14)
tabBar_always(params) ==
    << buildProjectTabs(OrElse(params, "activeTab", "summary")), Divider >>

\* the tab bar of buildHomeView (line 28), as the blocks it adds (line 77)
tabBar(params) ==
    IF Has(params, "selectedProject")
    THEN << buildProjectTabs(OrElse(params, "activeTab", "summary")), Divider >>
    ELSE << >>

buildHomeView(params) ==
    LET sel == Has(params, "selectedProject")
        leftNav == buildProjectNav(params.projects,
                                   IF sel THEN <<params.selectedProject.id>> ELSE <<>>)
        header == buildHeader([icon |-> BLUE_BOOK,
                               title |-> IF sel
                                         THEN OrElse(params.selectedProject, "name",
                                                     "AI Project Hub")
                                         ELSE "AI Project Hub",
                               subtitle |-> IF sel THEN "Your calm command center"
                                            ELSE "Choose a project to begin"])
    IN  [type |-> "home",
         private_metadata |-> JSONstringify(HomeState(params)),
         blocks |-> leftNav \o << header, Divider >> \o tabBar(params)
                    \o bodyBlocks(params)]

-----------------------------------------------------------------------------
(* src/src/handlers/home.ts: the pure helpers.                             *)

\* getStateFromView that never parses (the mutant of C4)
getStateFromView_noParse(a) == Obj(<<>>)

\* getStateFromView(view?): a is the argument list, <<>> or <<view>>.
\* The try/catch turns a SyntaxError of JSON.parse into {}.
getStateFromView(a) ==
    IF a # <<>> /\ Has(a[1], "private_metadata") /\ Truthy(a[1].private_metadata)
    THEN LET Caught(r) == IF r.threw THEN Obj(<<>>) ELSE r.v
         IN  Caught(JSONparse(a[1].private_metadata))
    ELSE Obj(<<>>)

\* getProjectById(id?): <<>> (undefined) or <<project>>; id is <<>> or <<string>>
getProjectById(id) ==
    LET found == SelectSeq(projects, LAMBDA p : id = <<p.id>>) IN
    IF found = <<>> THEN <<>> ELSE <<found[1]>>

\* getTasks without its filter (the mutant of C22)
getTasks_all(projectId) == tasks

getTasks(projectId) == SelectSeq(tasks, LAMBDA t : projectId = <<t.projectId>>)

getRisks(projectId) == SelectSeq(risks, LAMBDA r : projectId = <<r.projectId>>)

-----------------------------------------------------------------------------
(* src/ui/README.md, lines 364-402: ui/types.ts, DESIGN_TOKENS.            *)

DESIGN_TOKENS ==
    [COLORS |->
        [INK_900 |-> "#37352f", INK_600 |-> "#787774", INK_400 |-> "#9b9a97",
         ACCENT_600 |-> "#2383e2", ACCENT_400 |-> "#4a9eff"],
     ICONS |->
        [PIN |-> "<U+1F4CC>", CHECK |-> "<U+2705>", FOLDER |-> "<U+1F5C2><U+FE0F>",
         COMPASS |-> "<U+1F9ED>", SETTINGS |-> "<U+2699><U+FE0F>",
         USER |-> "<U+1F464>", CALENDAR |-> "<U+1F4C5>", CLOCK |-> "<U+23F0>",
         PLUS |-> "<U+2795>", EDIT |-> "<U+270F><U+FE0F>",
         DELETE |-> "<U+1F5D1><U+FE0F>", EXPAND |-> "<U+1F53D>",
         COLLAPSE |-> "<U+1F53C>"],
     ACTION_IDS |->
        [TAB_OVERVIEW |-> "tab_overview", TAB_MY_UPDATES |-> "tab_my_updates",
         TAB_ADMIN |-> "tab_admin", TOGGLE_PREFIX |-> "toggle_",
         CARD_ACTION_PREFIX |-> "card_action_",
         HEADER_ACTION_PREFIX |-> "header_action_"],
     BLOCK_IDS |->
        [HOME_HEADER |-> "home_header", HOME_TABS |-> "home_tabs",
         HOME_CONTENT |-> "home_content", CARD_PREFIX |-> "card_",
         TOGGLE_PREFIX |-> "toggle_"]]

-----------------------------------------------------------------------------
(* src/README.md, lines 68-455: ui/builders.ts.                            *)

\* getStatusEmoji with an empty default (the mutant of C7)
getStatusEmoji_emptyDefault(status) ==
    CASE status = <<"active">> -> "<U+1F7E2>"
      [] status = <<"paused">> -> "<U+1F7E1>"
      [] status = <<"completed">> -> "<U+2705>"
      [] status = <<"pending">> -> "<U+23F3>"
      [] OTHER -> ""

\* getStatusEmoji(status?): status is <<>> (undefined) or <<string>>
getStatusEmoji(status) ==
    CASE status = <<"active">> -> "<U+1F7E2>"
      [] status = <<"paused">> -> "<U+1F7E1>"
      [] status = <<"completed">> -> "<U+2705>"
      [] status = <<"pending">> -> "<U+23F3>"
      [] OTHER -> "<U+26AA>"

\* the argument of getStatusEmoji in buildCard: item.meta.status
metaStatus(item) == IF Has(item.meta, "status") THEN <<item.meta.status>> ELSE <<>>

\* metaText of buildCard (lines 329-334): the truthy parts joined
metaText(item) ==
    LET statusEmoji == getStatusEmoji(metaStatus(item))
        m == item.meta
        parts ==
            (IF Has(m, "owner") /\ Truthy(m.owner)
             THEN << "<U+1F464> " \o m.owner >> ELSE << >>)
            \o (IF Has(m, "date") /\ Truthy(m.date)
                THEN << "<U+1F4C5> " \o m.date >> ELSE << >>)
            \o (IF Has(m, "status") /\ Truthy(m.status)
                THEN << statusEmoji \o " " \o m.status >> ELSE << >>)
    IN  Join(parts, " " \o BULLET \o " ")

\* the actions block emitted even for an empty list (the mutant of C15)
cardActions_evenEmpty(item) ==
    IF Has(item, "actions")
    THEN << [type |-> "actions",
             elements |->
                [i \in 1..Len(item.actions) |->
                    [type |-> "button",
                     action_id |-> DESIGN_TOKENS.ACTION_IDS.CARD_ACTION_PREFIX
                                   \o item.actions[i].id,
                     text |-> PlainText(item.actions[i].text),
                     value |-> item.id]]] >>
    ELSE << >>

\* the actions block whose buttons carry the action's id as value and never a
\* confirm payload (the mutant of C17)
cardActions_actionValue(item) ==
    IF Has(item, "actions") /\ Len(item.actions) > 0
    THEN << [type |-> "actions",
             elements |->
                [i \in 1..Len(item.actions) |->
                    LET action == item.actions[i] IN
                    [type |-> "button",
                     action_id |-> DESIGN_TOKENS.ACTION_IDS.CARD_ACTION_PREFIX
                                   \o action.id,
                     text |-> PlainText(action.text),
                     value |-> action.id]
                    @@ Opt("style", Has(action, "style"), OrElse(action, "style", ""))]] >>
    ELSE << >>

\* the actions block of buildCard (lines 361-385)
cardActions(item) ==
    IF Has(item, "actions") /\ Len(item.actions) > 0
    THEN << [type |-> "actions",
             elements |->
                [i \in 1..Len(item.actions) |->
                    LET action == item.actions[i] IN
                    [type |-> "button",
                     action_id |-> DESIGN_TOKENS.ACTION_IDS.CARD_ACTION_PREFIX
                                   \o action.id,
                     text |-> PlainText(action.text),
                     value |-> item.id]
                    @@ Opt("style", Has(action, "style"), OrElse(action, "style", ""))
                    @@ (IF Has(action, "confirm")
                        THEN [confirm |->
                                [title |-> PlainText(action.confirm.title),
                                 text |-> Mrkdwn(action.confirm.text)]]
                        ELSE Empty)]] >>
    ELSE << >>

buildCard(item) ==
    << [type |-> "section",
        block_id |-> DESIGN_TOKENS.BLOCK_IDS.CARD_PREFIX \o item.id,
        text |-> Mrkdwn("*" \o item.title \o "*"
                        \o (IF Has(item, "subtitle") /\ Truthy(item.subtitle)
                            THEN "\n_" \o item.subtitle \o "_" ELSE ""))] >>
    \o (IF Truthy(metaText(item))
        THEN << [type |-> "context", elements |-> << Mrkdwn(metaText(item)) >>] >>
        ELSE << >>)
    \o cardActions(item)

\* buildCardList with a divider after every card (the mutant of C2)
buildCardList_trailing(items) ==
    Flatten([i \in 1..Len(items) |-> buildCard(items[i]) \o << Divider >>])

\* items.forEach((item, index) => ...) of buildCardList
buildCardList(items) ==
    Flatten([i \in 1..Len(items) |->
                buildCard(items[i])
                \o (IF i - 1 < Len(items) - 1 THEN << Divider >> ELSE << >>)])

\* buildEmptyState without the default style (the mutant of C19)
buildEmptyState_noDefault(config) ==
    << [type |-> "section",
        text |-> Mrkdwn(config.icon \o " *" \o config.title \o "*\n" \o config.hint)],
       [type |-> "actions",
        elements |->
            << [type |-> "button",
                action_id |-> config.cta.id,
                text |-> PlainText(config.cta.text)]
               @@ Opt("style", Has(config.cta, "style"),
                      OrElse(config.cta, "style", "")) >>] >>

buildEmptyState(config) ==
    << [type |-> "section",
        text |-> Mrkdwn(config.icon \o " *" \o config.title \o "*\n" \o config.hint)],
       [type |-> "actions",
        elements |->
            << [type |-> "button",
                action_id |-> config.cta.id,
                text |-> PlainText(config.cta.text),
                style |-> IF Has(config.cta, "style") /\ Truthy(config.cta.style)
                          THEN config.cta.style ELSE "primary"] >>] >>

\* buildToggle followed by the view that was not selected (the mutant of C18)
buildToggle_otherView(config) ==
    LET toggleIcon == IF config.isExpanded THEN DESIGN_TOKENS.ICONS.COLLAPSE
                      ELSE DESIGN_TOKENS.ICONS.EXPAND
    IN  << [type |-> "actions",
            block_id |-> DESIGN_TOKENS.BLOCK_IDS.TOGGLE_PREFIX \o config.id,
            elements |->
                << [type |-> "button",
                    action_id |-> DESIGN_TOKENS.ACTION_IDS.TOGGLE_PREFIX \o config.id,
                    text |-> PlainText(toggleIcon \o " "
                                       \o (IF config.isExpanded THEN "Collapse"
                                           ELSE "Expand"))] >>] >>
        \o (IF config.isExpanded THEN config.collapsedView ELSE config.expandedView)

buildToggle(config) ==
    LET toggleIcon == IF config.isExpanded THEN DESIGN_TOKENS.ICONS.COLLAPSE
                      ELSE DESIGN_TOKENS.ICONS.EXPAND
    IN  << [type |-> "actions",
            block_id |-> DESIGN_TOKENS.BLOCK_IDS.TOGGLE_PREFIX \o config.id,
            elements |->
                << [type |-> "button",
                    action_id |-> DESIGN_TOKENS.ACTION_IDS.TOGGLE_PREFIX \o config.id,
                    text |-> PlainText(toggleIcon \o " "
                                       \o (IF config.isExpanded THEN "Collapse"
                                           ELSE "Expand"))] >>] >>
        \o (IF config.isExpanded THEN config.expandedView ELSE config.collapsedView)

\* buildHeader of ui/builders.ts (the CardItem family's header)
buildHeaderUI(config) ==
    << [type |-> "section",
        block_id |-> DESIGN_TOKENS.BLOCK_IDS.HOME_HEADER,
        text |-> Mrkdwn(config.icon \o " *" \o config.title \o "*"
                        \o (IF Has(config, "subtitle") /\ Truthy(config.subtitle)
                            THEN "\n" \o config.subtitle ELSE ""))]
       @@ (IF Has(config, "actions") /\ Len(config.actions) > 0
           THEN [accessory |->
                    [type |-> "overflow",
                     action_id |-> "header_actions",
                     options |->
                        [i \in 1..Len(config.actions) |->
                            [text |-> PlainText(config.actions[i].text),
                             value |-> config.actions[i].id]]]]
           ELSE Empty) >>

HomeTabList ==
    << [id |-> "overview", text |-> "Overview", icon |-> DESIGN_TOKENS.ICONS.COMPASS],
       [id |-> "my-updates", text |-> "My Updates", icon |-> DESIGN_TOKENS.ICONS.USER],
       [id |-> "admin", text |-> "Admin", icon |-> DESIGN_TOKENS.ICONS.SETTINGS] >>

\* the key without its replace('-', '_') (the mutant of C6)
tabActionKey_noReplace(id) == "TAB_" \o ToUpperCase(id)

\* the key `TAB_${tab.id.toUpperCase().replace('-', '_')}` of buildTabs (line 155)
tabActionKey(id) == "TAB_" \o Replace(ToUpperCase(id), "-", "_")

buildTabs(activeTab) ==
    << [type |-> "actions",
        block_id |-> DESIGN_TOKENS.BLOCK_IDS.HOME_TABS,
        elements |->
            [i \in 1..Len(HomeTabList) |->
                LET tab == HomeTabList[i]
                    key == tabActionKey(tab.id)
                IN  [type |-> "button",
                     text |-> PlainText(tab.icon \o " " \o tab.text),
                     value |-> tab.id]
                    @@ Opt("action_id", Has(DESIGN_TOKENS.ACTION_IDS, key),
                           OrElse(DESIGN_TOKENS.ACTION_IDS, key, ""))
                    @@ Opt("style", tab.id = activeTab, "primary")]] >>

\* buildOverviewContent without its slice(0, 5) (the mutant of C11)
buildOverviewContent_noSlice(items) ==
    IF Len(items) = 0
    THEN buildEmptyState([icon |-> DESIGN_TOKENS.ICONS.CHECK,
                          title |-> "All caught up!",
                          hint |-> "No pending updates from your team",
                          cta |-> [id |-> "refresh", text |-> "Refresh"]])
    ELSE << [type |-> "section",
             text |-> Mrkdwn("*Recent Updates* (" \o NumStr(Len(items)) \o ")")],
            Divider >>
         \o buildCardList(items)
         \o (IF Len(items) > 5
             THEN << [type |-> "section",
                      text |-> Mrkdwn("_... and " \o NumStr(Len(items) - 5)
                                      \o " more updates_")] >>
             ELSE << >>)

buildOverviewContent(items) ==
    IF Len(items) = 0
    THEN buildEmptyState([icon |-> DESIGN_TOKENS.ICONS.CHECK,
                          title |-> "All caught up!",
                          hint |-> "No pending updates from your team",
                          cta |-> [id |-> "refresh", text |-> "Refresh"]])
    ELSE << [type |-> "section",
             text |-> Mrkdwn("*Recent Updates* (" \o NumStr(Len(items)) \o ")")],
            Divider >>
         \o buildCardList(SubSeq(items, 1, IF Len(items) < 5 THEN Len(items) ELSE 5))
         \o (IF Len(items) > 5
             THEN << [type |-> "section",
                      text |-> Mrkdwn("_... and " \o NumStr(Len(items) - 5)
                                      \o " more updates_")] >>
             ELSE << >>)

buildMyUpdatesContent(items) ==
    LET myItems == SelectSeq(items, LAMBDA item :
                        Has(item.meta, "owner") /\ item.meta.owner = "me")
    IN  IF Len(myItems) = 0
        THEN buildEmptyState([icon |-> DESIGN_TOKENS.ICONS.USER,
                              title |-> "No updates from you",
                              hint |-> "Share your progress with the team",
                              cta |-> [id |-> "create_update", text |-> "Create Update",
                                       style |-> "primary"]])
        ELSE << [type |-> "section",
                 text |-> Mrkdwn("*Your Updates* (" \o NumStr(Len(myItems)) \o ")")],
                Divider >>
             \o buildCardList(myItems)

\* new Set(items.map(i => i.meta.owner)).size: undefined is a member like any other
activeUsers(items) ==
    Cardinality({ IF Has(items[i].meta, "owner") THEN <<items[i].meta.owner>> ELSE <<>> :
                  i \in 1..Len(items) })

\* items.filter(i => i.meta.status === 'pending').length
pendingReviews(items) ==
    Len(SelectSeq(items, LAMBDA item :
            Has(item.meta, "status") /\ item.meta.status = "pending"))

buildAdminContent(items) ==
    << [type |-> "section", text |-> Mrkdwn("*Admin Panel*")],
       Divider,
       [type |-> "section",
        text |-> Mrkdwn(BULLET \o " *Total Updates:* " \o NumStr(Len(items))
                        \o "\n" \o BULLET \o " *Active Users:* "
                        \o NumStr(activeUsers(items))
                        \o "\n" \o BULLET \o " *Pending Reviews:* "
                        \o NumStr(pendingReviews(items)))],
       Divider,
       [type |-> "actions",
        elements |->
            << [type |-> "button", action_id |-> "admin_manage_users",
                text |-> PlainText(DESIGN_TOKENS.ICONS.USER \o " Manage Users")],
               [type |-> "button", action_id |-> "admin_settings",
                text |-> PlainText(DESIGN_TOKENS.ICONS.SETTINGS \o " Settings")] >>] >>

buildContent(config) ==
    CASE config.tab = "overview" -> buildOverviewContent(config.items)
      [] config.tab = "my-updates" -> buildMyUpdatesContent(config.items)
      [] config.tab = "admin" -> buildAdminContent(config.items)
      [] OTHER ->
            buildEmptyState([icon |-> DESIGN_TOKENS.ICONS.FOLDER,
                             title |-> "No content available",
                             hint |-> "Select a different tab to view content",
                             cta |-> [id |-> "refresh", text |-> "Refresh"]])

buildHome(config) ==
    [type |-> "home",
     blocks |->
        buildHeaderUI([icon |-> DESIGN_TOKENS.ICONS.PIN,
                       title |-> "Project Updates",
                       subtitle |-> "Track team progress and manage updates",
                       actions |-> << [id |-> "refresh", text |-> "Refresh"] >>])
        \o buildTabs(config.tab)
        \o << Divider >>
        \o buildContent(config)]

-----------------------------------------------------------------------------
(* The inputs the builders are called with.                                *)

\* the sequences over S of length at most n
SeqsUpTo(S, n) == UNION { [1..k -> S] : k \in 0..n }

Range(f) == { f[i] : i \in DOMAIN f }

\* an optional value: <<>> for undefined, <<v>> for v
OptOf(k, o) == IF o = <<>> THEN Empty ELSE k :> o[1]

\* a project outside the seed, without description, whose id needs escaping:
\* a quote, a backslash, a form feed and a backspace
OtherProject == [id |-> "p\"3\\\f<U+0008>", name |-> "Q&A"]

TabInputs == {"summary", "tasks", "risks", "settings"}

HomeViewParams ==
    { [projects |-> ps] @@ OptOf("selectedProject", sp) @@ OptOf("activeTab", tab)
        @@ OptOf("tasks", ts) @@ OptOf("risks", rs) :
        ps \in {projects, <<>>},
        sp \in {<<>>, <<projects[1]>>, <<projects[2]>>, <<OtherProject>>,
                <<[id |-> "p5"]>>},
        tab \in {<<>>} \cup { <<t>> : t \in TabInputs },
        ts \in {<<>>, << <<>> >>, <<getTasks(<<"p1">>)>>, <<tasks>>},
        rs \in {<<>>, << <<>> >>, <<risks>>} }

TokenInputs ==
    { "",
      "{", "not json", "undefined", "{'selectedProjectId':'p1'}",
      "{\"selectedProjectId\":\"p1\"", "{\"selectedProjectId\":\"p1\",}",
      "null", "42", "\"p1\"", "[]", "true",
      "{}", "{\"selectedProjectId\":\"p1\",\"activeTab\":\"tasks\"}",
      " { \"activeTab\" : \"risks\" } ", "{\"selectedProjectId\":null}",
      "1.5", "1e2", "-0.25E+1", "1.", "1e-400", "[25e-330,1e400]",
      "9007199254740993", "{\"selectedProjectId\":5e-324}", "\"\\u0041\"", "[\"\\b\"]", "\"a\fb\"",
      "\"<U+0001>\"", "\"\\ud83d\\udccc\"", "\"\\ud83d<U+DCCC>\"",
      "\"<U+D83D>\\udccc\"", "\"\\u003cU+D83D>\\udccc\"", "[\"\\u003cU+0008\\u003e\"]",
      "1e0000007", "[1e-12345678901,1e12345678901]",
      "{\"selectedProjectId\":\"p\\u0032\",\"activeTab\":\"ris\\u006bs\"}" }

ViewInputs ==
    { [type |-> "home", blocks |-> <<>>] }
    \cup { [type |-> "home", blocks |-> <<>>, private_metadata |-> tok] :
             tok \in TokenInputs }

ActionInputs ==
    { <<>>,
      << <<>> >>,
      << << [id |-> "view", text |-> "View"] >> >>,
      << << [id |-> "view", text |-> "View Details"],
            [id |-> "edit", text |-> "Edit", style |-> "primary"] >> >>,
      << << [id |-> "delete", text |-> "Delete", style |-> "danger",
             confirm |-> [title |-> "Are you sure?",
                          text |-> "This cannot be undone."]],
            [id |-> "view", text |-> "View"] >> >> }

\* the cards buildCard is called with
CardInputs ==
    { [id |-> "test-1", title |-> "Test Update",
       meta |-> OptOf("owner", ow) @@ OptOf("date", dt) @@ OptOf("status", st)]
        @@ OptOf("subtitle", sub) @@ OptOf("actions", acts) :
        sub \in {<<>>, <<"Test subtitle">>},
        ow \in {<<>>, <<"">>, <<"John Doe">>},
        dt \in {<<>>, <<"2025-09-22">>},
        st \in {<<>>} \cup { <<x>> : x \in {"", "active", "paused", "completed", "pending",
                                             "archived"} },
        acts \in ActionInputs }

\* the item of the overview test (builders.test.ts, lines 9-24)
OverviewTestItem ==
    [id |-> "1", title |-> "API Integration",
     subtitle |-> "Backend services connected",
     meta |-> [owner |-> "Sarah Chen", date |-> "2025-09-22",
               status |-> "completed"],
     actions |-> << [id |-> "view", text |-> "View"],
                    [id |-> "edit", text |-> "Edit"] >>]

\* the items of the admin test (builders.test.ts, lines 51-54)
AdminTestItems ==
    << [id |-> "1", title |-> "Test", meta |-> [owner |-> "User1", status |-> "active"]],
       [id |-> "2", title |-> "Test2",
        meta |-> [owner |-> "User2", status |-> "pending"]] >>

MinimalItem == [id |-> "test-2", title |-> "Minimal Update", meta |-> Empty]

MyItem == [id |-> "m1", title |-> "Mine", meta |-> [owner |-> "me", status |-> "pending"]]

\* the item lists the list builders and buildHome are called with
ItemLists ==
    SeqsUpTo({OverviewTestItem, AdminTestItems[1], AdminTestItems[2], MinimalItem,
              MyItem}, MaxItems)
    \cup SeqsUpTo({MinimalItem, MyItem}, MaxLong)

HomeTabInputs == {"overview", "my-updates", "admin", "settings"}

\* the configurations the project family's buildHeader is called with
HeaderInputs ==
    { [title |-> t] @@ OptOf("icon", ic) @@ OptOf("subtitle", sub) :
        t \in {"AI Project Hub", "Apollo"},
        ic \in {<<>>, <<COMPASS>>},
        sub \in {<<>>, <<"">>, <<"Your calm command center">>} }

\* the HeaderConfigs the CardItem family's buildHeader is called with
HeaderConfigInputs ==
    { [icon |-> DESIGN_TOKENS.ICONS.PIN, title |-> t]
        @@ OptOf("subtitle", sub) @@ OptOf("actions", acts) :
        t \in {"Project Updates", "Inbox"},
        sub \in {<<>>, <<"">>, <<"Track team progress and manage updates">>},
        acts \in ActionInputs }

\* a section block of the toggle tests (builders.test.ts, lines 140-146)
ToggleSection(text) == [type |-> "section", text |-> Mrkdwn(text)]

ToggleViews ==
    { <<>>,
      << ToggleSection("Collapsed content") >>,
      << ToggleSection("Expanded content"), ToggleSection("More details") >>,
      << Divider, ToggleSection("More details"), Divider >> }

ToggleInputs ==
    { [id |-> "test-toggle", collapsedView |-> cv, expandedView |-> ev,
       isExpanded |-> b] :
        cv \in ToggleViews, ev \in ToggleViews, b \in BOOLEAN }

\* the EmptyStateConfigs buildEmptyState is called with
EmptyStateInputs ==
    { [icon |-> ic, title |-> "No updates yet",
       hint |-> "Create your first update to get started",
       cta |-> [id |-> id, text |-> "Create Update"] @@ OptOf("style", st)] :
        ic \in {"<U+1F4DD>", DESIGN_TOKENS.ICONS.FOLDER},
        id \in {"create", "refresh"},
        st \in {<<>>, <<"primary">>, <<"danger">>} }

-----------------------------------------------------------------------------
(* The builder harness: each action calls one exported function on an      *)
(* input and records the call, its arguments and its result.               *)

NoCall == "none"

\* the caller takes the result: the harness is ready for the next call
Return ==
    /\ call # NoCall
    /\ call' = NoCall
    /\ args' = <<>>
    /\ ret' = <<>>
    /\ origin' = <<>>
    /\ UNCHANGED <<published, passed, inflight>>

CallBuildTaskList ==
    \E items \in SeqsUpTo(Range(tasks), MaxItems) :
        /\ call = NoCall
        /\ call' = "buildTaskList"
        /\ args' = items
        /\ ret' = buildTaskList(items)
        /\ UNCHANGED <<origin, published, passed, inflight>>

CallBuildRiskList ==
    \E items \in SeqsUpTo(Range(risks), MaxItems) :
        /\ call = NoCall
        /\ call' = "buildRiskList"
        /\ args' = items
        /\ ret' = buildRiskList(items)
        /\ UNCHANGED <<origin, published, passed, inflight>>

CallBuildCard ==
    \E item \in CardInputs :
        /\ call = NoCall
        /\ call' = "buildCard"
        /\ args' = item
        /\ ret' = buildCard(item)
        /\ UNCHANGED <<origin, published, passed, inflight>>

CallBuildCardList ==
    \E items \in ItemLists :
        /\ call = NoCall
        /\ call' = "buildCardList"
        /\ args' = items
        /\ ret' = buildCardList(items)
        /\ UNCHANGED <<origin, published, passed, inflight>>

CallBuildProjectTabs ==
    \E active \in TabInputs :
        /\ call = NoCall
        /\ call' = "buildProjectTabs"
        /\ args' = active
        /\ ret' = buildProjectTabs(active)
        /\ UNCHANGED <<origin, published, passed, inflight>>

CallBuildTabs ==
    \E active \in HomeTabInputs :
        /\ call = NoCall
        /\ call' = "buildTabs"
        /\ args' = active
        /\ ret' = buildTabs(active)
        /\ UNCHANGED <<origin, published, passed, inflight>>

CallBuildContent ==
    \E tab \in HomeTabInputs, items \in ItemLists :
        /\ call = NoCall
        /\ call' = "buildContent"
        /\ args' = [tab |-> tab, items |-> items]
        /\ ret' = buildContent(args')
        /\ UNCHANGED <<origin, published, passed, inflight>>

CallBuildHome ==
    \E tab \in HomeTabInputs, items \in ItemLists :
        /\ call = NoCall
        /\ call' = "buildHome"
        /\ args' = [tab |-> tab, items |-> items]
        /\ ret' = buildHome(args')
        /\ UNCHANGED <<origin, published, passed, inflight>>

CallBuildHomeView ==
    \E params \in HomeViewParams :
        /\ call = NoCall
        /\ call' = "buildHomeView"
        /\ args' = params
        /\ ret' = buildHomeView(params)
        /\ UNCHANGED <<origin, published, passed, inflight>>

CallGetStateFromView ==
    \E a \in {<<>>} \cup { <<v>> : v \in ViewInputs } :
        /\ call = NoCall
        /\ call' = "getStateFromView"
        /\ args' = a
        /\ ret' = getStateFromView(a)
        /\ UNCHANGED <<origin, published, passed, inflight>>

CallBuildHeader ==
    \E cfg \in HeaderInputs :
        /\ call = NoCall
        /\ call' = "buildHeader"
        /\ args' = cfg
        /\ ret' = buildHeader(cfg)
        /\ UNCHANGED <<origin, published, passed, inflight>>

CallBuildHeaderUI ==
    \E config \in HeaderConfigInputs :
        /\ call = NoCall
        /\ call' = "buildHeaderUI"
        /\ args' = config
        /\ ret' = buildHeaderUI(config)
        /\ UNCHANGED <<origin, published, passed, inflight>>

CallBuildProjectNav ==
    \E ps \in SeqsUpTo({projects[1], projects[2], OtherProject}, MaxItems),
       selectedId \in {<<>>, <<"p1">>, <<"p2">>, <<"p9">>, <<OtherProject.id>>} :
        /\ call = NoCall
        /\ call' = "buildProjectNav"
        /\ args' = [projects |-> ps, selectedId |-> selectedId]
        /\ ret' = buildProjectNav(ps, selectedId)
        /\ UNCHANGED <<origin, published, passed, inflight>>

CallBuildToggle ==
    \E config \in ToggleInputs :
        /\ call = NoCall
        /\ call' = "buildToggle"
        /\ args' = config
        /\ ret' = buildToggle(config)
        /\ UNCHANGED <<origin, published, passed, inflight>>

CallBuildEmptyState ==
    \E config \in EmptyStateInputs :
        /\ call = NoCall
        /\ call' = "buildEmptyState"
        /\ args' = config
        /\ ret' = buildEmptyState(config)
        /\ UNCHANGED <<origin, published, passed, inflight>>

\* getStateFromView on the view that buildHomeView has just returned; origin
\* keeps the arguments the view was built from
DecodeBuiltView ==
    /\ call = "buildHomeView"
    /\ call' = "getStateFromView"
    /\ args' = <<ret>>
    /\ ret' = getStateFromView(<<ret>>)
    /\ origin' = <<args>>
    /\ UNCHANGED <<published, passed, inflight>>

-----------------------------------------------------------------------------
(* src/src/handlers/home.ts: registerHomeHandlers.  Several events may be  *)
(* pending at once.  The listener of app_home_opened runs from its call to *)
(* its publish without a pause.  The listeners of nav_open_ and tab_ pause  *)
(* at "await ack()": their call, with the payload of the action, is one    *)
(* step, and their resumption, from the line after the ack to the publish, *)
(* is another; the listeners of other events run in between.  Every action *)
(* has a listener of its own, two equal actions too: inflight is a bag.    *)

\* the users of the workspace: the listeners keep nothing between events, so
\* the events of one user are the ones that can overlap on a view
Users == {"U1"}

\* the values a tab_ action arrives with: the values of the tab buttons
TabValues == {"summary", "tasks", "risks"}

\* the values a nav_open_ action arrives with: the id of a nav button, or an
\* id of no project (a button of a view built from older data)
NavValues == {"p1", "p2", "p9"}

\* the handler's call buildHomeView(params) and its publish of the result to u
BuildAndPublish(u, params) ==
    /\ published' = [published EXCEPT ![u] = <<buildHomeView(params)>>]
    /\ passed' = [passed EXCEPT ![u] = <<params>>]

\* app.event("app_home_opened", ...)  (lines 28-38): the user u opens the home
\* tab; nothing is awaited before the publish
HandleAppHomeOpened(u) ==
    /\ LET defaultProject == projects[1] IN
       BuildAndPublish(u,
                       [projects |-> projects,
                        selectedProject |-> defaultProject,
                        activeTab |-> "summary",
                        tasks |-> getTasks(<<defaultProject.id>>),
                        risks |-> getRisks(<<defaultProject.id>>)])
    /\ UNCHANGED <<call, args, ret, origin, inflight>>

\* app.action(/^nav_open_/, ...): the user u presses a project's button; the
\* listener is called and pauses at its "await ack()"  (lines 41-42)
NavOpenAck(u) ==
    /\ BagCardinality(inflight) < MaxInflight
    /\ \E v \in NavValues :
          inflight' = inflight (+)
              SetToBag({[type |-> "nav_open", user |-> u, value |-> v]})
    /\ UNCHANGED <<call, args, ret, origin, published, passed>>

\* the params the nav_open_ listener builds the view from  (lines 43-51)
NavOpenParams(e) ==
    LET projectId == <<e.value>>
        selected == getProjectById(projectId)
    IN  [projects |-> projects,
         activeTab |-> "summary",
         tasks |-> getTasks(projectId),
         risks |-> getRisks(projectId)]
        @@ OptOf("selectedProject", selected)

\* app.action(/^nav_open_/, ...): one of the paused listeners resumes after
\* its ack  (lines 43-53)
HandleNavOpen ==
    \E e \in BagToSet(inflight) :
        /\ e.type = "nav_open"
        /\ BuildAndPublish(e.user, NavOpenParams(e))
        /\ inflight' = inflight (-) SetToBag({e})
        /\ UNCHANGED <<call, args, ret, origin>>

\* the state tokens the listeners write: private_metadata of the views that
\* nav_open_ publishes for each of its values (app_home_opened publishes the
\* view of the first project's button) and that tab_ publishes for each
\* project of the seed and each tab  (lines 30-36, 45-51, 63-69)
TabTokens ==
    { buildHomeView(NavOpenParams([value |-> v])).private_metadata :
        v \in NavValues }
    \cup { buildHomeView([projects |-> projects,
                          selectedProject |-> projects[i],
                          activeTab |-> t,
                          tasks |-> getTasks(<<projects[i].id>>),
                          risks |-> getRisks(<<projects[i].id>>)]).private_metadata :
             i \in 1..Len(projects), t \in TabValues }

\* the state tokens the listener guards against, of views that were not
\* written from this seed: one whose project is no longer there, which
\* line 61 replaces by the first project, and the token null, which JSON.parse
\* reads without throwing (line 8) and line 60 cannot read a property of
OlderTokens ==
    { "{\"selectedProjectId\":\"p9\",\"activeTab\":\"summary\"}", "null" }

\* app.action(/^tab_/, ...): the user u presses a tab button.  The listener is
\* given the view the action comes from: the view published to u, a view
\* published before it, in this run or an earlier one, that a client still
\* shows, or none.  It is called and pauses at its "await ack()"
\* (lines 56-57)
TabAck(u) ==
    /\ BagCardinality(inflight) < MaxInflight
    /\ \E v \in TabValues :
          \E view \in {Empty}
                      \cup { [private_metadata |-> published[u][i].private_metadata] :
                               i \in 1..Len(published[u]) }
                      \cup { [private_metadata |-> t] :
                               t \in TabTokens \cup OlderTokens } :
              inflight' = inflight (+)
                  SetToBag({[type |-> "tab", user |-> u, value |-> v] @@ view})
    /\ UNCHANGED <<call, args, ret, origin, published, passed>>

\* the project id of the tab_ handler taken from projects[0] whatever the token
\* records (the mutant of C21)
prevProjectId_alwaysFirst(prev) == <<projects[1].id>>

\* prev.selectedProjectId ?? projects[0].id  (line 60), as <<id>>; a value
\* that is no string equals no project id
prevProjectId(prev) ==
    LET v == GetProp(prev, "selectedProjectId") IN
    IF v.t \in {"undefined", "null"} THEN <<projects[1].id>>
    ELSE IF v.t = "string" THEN <<v.v>>
    ELSE <<>>

\* the params the tab_ listener builds the view from (lines 59-69), as
\* <<params>>; <<>> when reading prev.selectedProjectId throws
TabParams(e) ==
    LET From(prev) ==
            IF prev.t \in {"null", "undefined"} THEN <<>>
            ELSE LET projectId == prevProjectId(prev)
                     found == getProjectById(projectId)
                     selected == IF found = <<>> THEN projects[1] ELSE found[1]
                 IN  << [projects |-> projects,
                         selectedProject |-> selected,
                         activeTab |-> e.value,
                         tasks |-> getTasks(projectId),
                         risks |-> getRisks(projectId)] >>
    IN  From(getStateFromView(IF Has(e, "private_metadata")
                              THEN <<[private_metadata |-> e.private_metadata]>>
                              ELSE <<>>))

\* app.action(/^tab_/, ...): one of the paused listeners resumes after its ack
\* (lines 58-71); reading a property of null throws and the listener
\* publishes nothing
HandleTab ==
    \E e \in BagToSet(inflight) :
        /\ e.type = "tab"
        /\ \E params \in {TabParams(e)} :
              IF params = <<>>
              THEN UNCHANGED <<published, passed>>
              ELSE BuildAndPublish(e.user, params[1])
        /\ inflight' = inflight (-) SetToBag({e})
        /\ UNCHANGED <<call, args, ret, origin>>

-----------------------------------------------------------------------------
(* The specifications.                                                     *)

Init ==
    /\ call = NoCall
    /\ args = <<>>
    /\ ret = <<>>
    /\ origin = <<>>
    /\ published = [u \in Users |-> <<>>]
    /\ passed = [u \in Users |-> <<>>]
    /\ inflight = EmptyBag

\* the listeners, called with the platform's events and resumed in any order
Next ==
    \/ \E u \in Users : HandleAppHomeOpened(u)
    \/ \E u \in Users : NavOpenAck(u)
    \/ HandleNavOpen
    \/ \E u \in Users : TabAck(u)
    \/ HandleTab

Spec == Init /\ [][Next]_vars

\* the builders, each called on every input of its bounded set
BuilderNext ==
    \/ CallBuildTaskList
    \/ CallBuildRiskList
    \/ CallBuildCard
    \/ CallBuildCardList
    \/ CallBuildProjectTabs
    \/ CallBuildTabs
    \/ CallBuildContent
    \/ CallBuildHome
    \/ CallBuildHomeView
    \/ CallGetStateFromView
    \/ CallBuildHeader
    \/ CallBuildHeaderUI
    \/ CallBuildProjectNav
    \/ CallBuildToggle
    \/ CallBuildEmptyState
    \/ DecodeBuiltView
    \/ Return

BuilderSpec == Init /\ [][BuilderNext]_vars

-----------------------------------------------------------------------------
(* Properties.  Each is about the state the harness is in after a call:    *)
(* call names the function, args its input and ret its output.             *)

IsDivider(b) == b.type = "divider"

DividerCount(blocks) == Cardinality({ i \in 1..Len(blocks) : IsDivider(blocks[i]) })

\* the text of a section block, "" for a block without text
BlockText(b) == IF Has(b, "text") THEN b.text.text ELSE ""

\* C1 (as claimed): buildTaskList and buildRiskList over N records return no
\* block for N = 0 and, for N > 0, a divider after every record's blocks
\* except the last record's: N - 1 dividers, and the last block is no divider.
C1_DividerNeverLast ==
    call \in {"buildTaskList", "buildRiskList"} =>
        /\ Len(args) = 0 => ret = <<>>
        /\ Len(args) > 0 =>
              /\ ~IsDivider(ret[Len(ret)])
              /\ DividerCount(ret) = Len(args) - 1

\* the cards of items in order, one divider between two consecutive cards
RECURSIVE CardsWithDividersBetween(_)
CardsWithDividersBetween(items) ==
    IF Len(items) = 0 THEN <<>>
    ELSE IF Len(items) = 1 THEN buildCard(items[1])
    ELSE buildCard(items[1]) \o << Divider >> \o CardsWithDividersBetween(Tail(items))

\* C2: buildCardList over N CardItems returns the blocks of each card in input
\* order with exactly one divider between consecutive cards and none after the
\* last: N - 1 dividers for N > 0, and no block for N = 0.
C2_CardListDividers ==
    call = "buildCardList" =>
        /\ ret = CardsWithDividersBetween(args)
        /\ Len(args) = 0 => ret = <<>>
        /\ Len(args) > 0 =>
              /\ DividerCount(ret) = Len(args) - 1
              /\ ~IsDivider(ret[Len(ret)])
              /\ ~IsDivider(ret[1])

C2_Witness ==
    /\ call = "buildCardList"
    /\ Len(args) = 3
    /\ DividerCount(ret) = 2
    /\ Len(ret) > 5

\* the token of the view passed to getStateFromView is missing or empty
TokenMissing(a) ==
    a = <<>> \/ ~Has(a[1], "private_metadata") \/ a[1].private_metadata = ""

\* C3 (as claimed): getStateFromView returns, for every input, an object
\* whose selectedProjectId can be read (never null or undefined), and the
\* empty state object {} for a missing token and for a token that JSON.parse
\* rejects.
C3_DecodeTotal ==
    call = "getStateFromView" =>
        /\ ret.t = "object"
        /\ TokenMissing(args) => ret = Obj(<<>>)
        /\ (~TokenMissing(args) /\ JSONparse(args[1].private_metadata).threw)
              => ret = Obj(<<>>)

\* C4: decoding the private_metadata of a view that buildHomeView returned
\* gives back the selectedProjectId (the id of the selected project, undefined
\* without one) and the activeTab (the tab passed, summary by default) that
\* buildHomeView encoded, and nothing else; a missing or empty token gives {}.
C4_RoundTrip ==
    call = "getStateFromView" =>
        /\ origin # <<>> =>
              LET params == origin[1] IN
              /\ ret.t = "object"
              /\ GetProp(ret, "selectedProjectId") =
                    (IF Has(params, "selectedProject")
                     THEN Str(params.selectedProject.id) ELSE Undef)
              /\ GetProp(ret, "activeTab") =
                    Str(IF Has(params, "activeTab") THEN params.activeTab
                        ELSE "summary")
              /\ \A i \in 1..Len(ret.v) :
                    ret.v[i].k \in {"selectedProjectId", "activeTab"}
        /\ TokenMissing(args) => ret = Obj(<<>>)

C4_Witness ==
    /\ call = "getStateFromView"
    /\ origin # <<>>
    /\ Has(origin[1], "selectedProject")
    /\ origin[1].selectedProject.id = "p1"
    /\ Has(origin[1], "activeTab")
    /\ origin[1].activeTab = "tasks"
    /\ ret = Obj(<< [k |-> "selectedProjectId", v |-> Str("p1")],
                    [k |-> "activeTab", v |-> Str("tasks")] >>)

\* C5 (as claimed): for a tab value outside the enumeration, buildContent
\* returns the generic empty state, and buildHomeView with a selected project
\* returns a view with a body: blocks follow the tab bar and its divider.
C5_TabDefault ==
    /\ (call = "buildContent" /\ args.tab \notin {"overview", "my-updates", "admin"}) =>
          /\ Len(ret) = 2
          /\ Includes(BlockText(ret[1]), "*No content available*")
    /\ (call = "buildHomeView" /\ Has(args, "selectedProject")
        /\ OrElse(args, "activeTab", "summary") \notin {"summary", "tasks", "risks"}) =>
          /\ Len(ret.blocks) > Len(args.projects) + 6
          /\ ~IsDivider(ret.blocks[Len(ret.blocks)])

\* the buttons of a tab bar returned by buildProjectTabs or by buildTabs
TabButtons == IF call = "buildProjectTabs" THEN ret.elements ELSE ret[1].elements

\* C6 (as claimed): in both tab bars every button's action_id is "tab_"
\* followed by the button's value.
C6_ActionIdIsTabValue ==
    call \in {"buildProjectTabs", "buildTabs"} =>
        \A i \in 1..Len(TabButtons) :
            /\ Has(TabButtons[i], "action_id")
            /\ TabButtons[i].action_id = "tab_" \o TabButtons[i].value

\* C6 (amended): in buildProjectTabs every button's action_id is "tab_"
\* followed by its value; in buildTabs it is "tab_" followed by its value with
\* the hyphen replaced by an underscore (the entry of DESIGN_TOKENS.ACTION_IDS);
\* in both, no two buttons share an action_id.
C6_ActionIdFromValue ==
    call \in {"buildProjectTabs", "buildTabs"} =>
        /\ Len(TabButtons) = 3
        /\ \A i \in 1..Len(TabButtons) :
              /\ Has(TabButtons[i], "action_id")
              /\ TabButtons[i].action_id =
                    "tab_" \o (IF call = "buildTabs"
                               THEN Replace(TabButtons[i].value, "-", "_")
                               ELSE TabButtons[i].value)
        /\ \A i, j \in 1..Len(TabButtons) :
              (Has(TabButtons[i], "action_id") /\ Has(TabButtons[j], "action_id")
               /\ TabButtons[i].action_id = TabButtons[j].action_id) => i = j

C6_Witness ==
    /\ call = "buildTabs"
    /\ ret[1].elements[2].value = "my-updates"
    /\ ret[1].elements[2].action_id = "tab_my_updates"

StatusEnum == {"active", "paused", "completed", "pending"}

DefaultGlyph == "<U+26AA>"

\* some block of the card shows the glyph g
CardShows(card, g) ==
    \E i \in 1..Len(card) :
        \/ Includes(BlockText(card[i]), g)
        \/ /\ card[i].type = "context"
           /\ \E j \in 1..Len(card[i].elements) : Includes(card[i].elements[j].text, g)

\* C7 (as claimed): a card whose meta.status is unset or outside the
\* enumeration shows the default glyph.
C7_DefaultGlyphRendered ==
    (call = "buildCard"
     /\ (~Has(args.meta, "status") \/ args.meta.status \notin StatusEnum)) =>
        CardShows(ret, DefaultGlyph)

\* the glyphs getStatusEmoji returns
StatusGlyphs == { getStatusEmoji(st) : st \in {<<>>} \cup { <<x>> : x \in StatusEnum } }

\* C7 (amended): a card whose meta.status is a non-empty string outside the
\* enumeration shows the default glyph followed by a space and the status in
\* its context block; a card whose meta.status is unset or empty shows no
\* status glyph, the default or another.
C7_DefaultGlyphWhenStatusShown ==
    call = "buildCard" =>
        /\ (Has(args.meta, "status") /\ args.meta.status # ""
            /\ args.meta.status \notin StatusEnum) =>
              /\ Len(ret) >= 2
              /\ ret[2].type = "context"
              /\ Includes(ret[2].elements[1].text,
                          DefaultGlyph \o " " \o args.meta.status)
        /\ (~Has(args.meta, "status") \/ args.meta.status = "") =>
              /\ DefaultGlyph \in StatusGlyphs
              /\ \A g \in StatusGlyphs : ~CardShows(ret, g)

C7_Witness ==
    /\ call = "buildCard"
    /\ Has(args.meta, "status")
    /\ args.meta.status = "archived"
    /\ ~Has(args.meta, "owner")
    /\ ret[2].elements[1].text = "<U+26AA> archived"

\* C8 (as claimed): buildHome for the overview tab with the one item of the
\* test returns a home view of exactly 6 blocks whose first block is the
\* header section.
C8_OverviewSixBlocks ==
    (call = "buildHome" /\ args.tab = "overview" /\ args.items = <<OverviewTestItem>>) =>
        /\ ret.type = "home"
        /\ Len(ret.blocks) = 6
        /\ ret.blocks[1].type = "section"
        /\ Includes(BlockText(ret.blocks[1]), "<U+1F4CC> *Project Updates*")

\* C9 (as claimed): buildHome for the my-updates tab when no item has owner
\* "me" returns a home view of exactly 6 blocks whose block at index 4 (the
\* fifth) is the empty-state section.
C9_MyUpdatesEmptyState ==
    (call = "buildHome" /\ args.tab = "my-updates"
     /\ \A i \in 1..Len(args.items) :
           ~(Has(args.items[i].meta, "owner") /\ args.items[i].meta.owner = "me")) =>
        /\ ret.type = "home"
        /\ Len(ret.blocks) = 6
        /\ ret.blocks[5].type = "section"
        /\ Includes(BlockText(ret.blocks[5]), "<U+1F464> *No updates from you*")

\* the owners of the items that have one
Owners(items) ==
    { items[i].meta.owner : i \in { j \in 1..Len(items) : Has(items[j].meta, "owner") } }

\* C10 (as claimed): for the admin tab the block at index 4 (the fifth) of
\* buildHome's output is the statistics section: Total Updates is the number
\* of items, Active Users the number of distinct owners (an item without owner
\* adds none), Pending Reviews the number of items with status pending.
C10_AdminStats ==
    (call = "buildHome" /\ args.tab = "admin") =>
        /\ Len(ret.blocks) >= 5
        /\ ret.blocks[5].type = "section"
        /\ Includes(BlockText(ret.blocks[5]),
                    "*Total Updates:* " \o NumStr(Len(args.items)) \o "\n")
        /\ Includes(BlockText(ret.blocks[5]),
                    "*Active Users:* " \o NumStr(Cardinality(Owners(args.items))) \o "\n")
        /\ Includes(BlockText(ret.blocks[5]) \o "\n",
                    "*Pending Reviews:* "
                    \o NumStr(Cardinality({ i \in 1..Len(args.items) :
                                Has(args.items[i].meta, "status")
                                /\ args.items[i].meta.status = "pending" })) \o "\n")


\* C11: for N > 0 items the overview content is the "Recent Updates" section,
\* a divider, the cards of exactly the first min(N, 5) items in input order
\* (one divider between consecutive cards), and then, when N > 5, exactly one
\* note block reading "... and (N-5) more updates"; for N <= 5 there is no
\* note block.
C11_OverviewTruncation ==
    (call = "buildContent" /\ args.tab = "overview" /\ Len(args.items) > 0) =>
        LET N == Len(args.items)
            shown == SubSeq(args.items, 1, IF N < 5 THEN N ELSE 5)
            cards == CardsWithDividersBetween(shown)
            rest == SubSeq(ret, 3 + Len(cards), Len(ret))
        IN  /\ Len(ret) >= 2 + Len(cards)
            /\ ret[1].type = "section"
            /\ BlockText(ret[1]) = "*Recent Updates* (" \o NumStr(N) \o ")"
            /\ IsDivider(ret[2])
            /\ SubSeq(ret, 3, 2 + Len(cards)) = cards
            /\ N > 5 =>
                  /\ Len(rest) = 1
                  /\ rest[1].type = "section"
                  /\ BlockText(rest[1]) =
                        "_... and " \o NumStr(N - 5) \o " more updates_"
            /\ N <= 5 =>
                  /\ rest = <<>>
                  /\ \A i \in 1..Len(ret) : ~Includes(BlockText(ret[i]), "more updates")

C11_Witness ==
    /\ call = "buildContent"
    /\ args.tab = "overview"
    /\ Len(args.items) = 6
    /\ args.items[5] = MyItem
    /\ args.items[6] = MinimalItem
    /\ BlockText(ret[Len(ret)]) = "_... and 1 more updates_"
    /\ ret[Len(ret) - 1].type = "context"

\* C12 (as claimed): when subtitle is absent, the header text of the project
\* family's buildHeader is the bold icon and title only, and that of the
\* CardItem family's buildHeader is the icon and the bold title only: no
\* newline, no empty italic marker after it.
C12_SubtitleOmitted ==
    /\ (call = "buildHeader" /\ ~Has(args, "subtitle")) =>
          /\ ret.text.text = "*" \o OrElse(args, "icon", BLUE_BOOK) \o " "
                             \o args.title \o "*"
          /\ ~Includes(ret.text.text, "\n")
          /\ ~Includes(ret.text.text, "__")
    /\ (call = "buildHeaderUI" /\ ~Has(args, "subtitle")) =>
          /\ Len(ret) = 1
          /\ BlockText(ret[1]) = args.icon \o " *" \o args.title \o "*"
          /\ ~Includes(BlockText(ret[1]), "\n")

\* C13: for an active tab of the enumeration, the tab bar of buildProjectTabs
\* and of buildTabs has exactly one button with style "primary", the button
\* whose value is the active tab; every other button has no style.
C13_TabExclusivity ==
    ((call = "buildProjectTabs" /\ args \in {"summary", "tasks", "risks"})
     \/ (call = "buildTabs" /\ args \in {"overview", "my-updates", "admin"})) =>
        /\ Cardinality({ i \in 1..Len(TabButtons) : Has(TabButtons[i], "style") }) = 1
        /\ \A i \in 1..Len(TabButtons) :
              /\ Has(TabButtons[i], "style") <=> TabButtons[i].value = args
              /\ Has(TabButtons[i], "style") => TabButtons[i].style = "primary"

C13_Witness ==
    /\ call = "buildProjectTabs"
    /\ args = "risks"
    /\ ~Has(ret.elements[1], "style")
    /\ ~Has(ret.elements[2], "style")
    /\ ret.elements[3].value = "risks"
    /\ ret.elements[3].style = "primary"

\* a block is the project family's tab bar
IsTabBar(b) == b.type = "actions" /\ Has(b, "block_id") /\ b.block_id = "tabs"

\* C14: the view of buildHomeView has a tab bar if and only if a project is
\* selected, and its blocks are in the order: the navigation blocks (the
\* "Projects" label, one row per project, a divider), the header, a divider,
\* then only with a selected project the tab bar and a divider, then the body.
C14_HomeViewOrder ==
    call = "buildHomeView" =>
        LET blocks == ret.blocks
            sel == Has(args, "selectedProject")
            n == Len(args.projects) + 2
            bodyAt == IF sel THEN n + 5 ELSE n + 3
        IN  /\ (\E i \in 1..Len(blocks) : IsTabBar(blocks[i])) <=> sel
            /\ Len(blocks) >= bodyAt - 1
            /\ SubSeq(blocks, 1, n) =
                  buildProjectNav(args.projects,
                                  IF sel THEN <<args.selectedProject.id>> ELSE <<>>)
            /\ blocks[n + 1].type = "section"
            /\ blocks[n + 1].block_id = "hdr"
            /\ IsDivider(blocks[n + 2])
            /\ sel => /\ IsTabBar(blocks[n + 3])
                      /\ blocks[n + 3] = buildProjectTabs(OrElse(args, "activeTab", "summary"))
                      /\ IsDivider(blocks[n + 4])
                      /\ \A i \in 1..Len(blocks) : IsTabBar(blocks[i]) => i = n + 3
            /\ SubSeq(blocks, bodyAt, Len(blocks)) = bodyBlocks(args)
            /\ ~sel => /\ Len(blocks) = n + 3
                       /\ blocks[n + 3].block_id = "empty"

C14_Witness ==
    /\ call = "buildHomeView"
    /\ Len(args.projects) = 2
    /\ Has(args, "selectedProject")
    /\ args.selectedProject.id = "p2"
    /\ Has(args, "activeTab")
    /\ args.activeTab = "tasks"
    /\ IsTabBar(ret.blocks[7])
    /\ IsDivider(ret.blocks[8])
    /\ BlockText(ret.blocks[9]) = "*Tasks*"

\* the card has a block of the type
HasBlock(card, type) == \E i \in 1..Len(card) : card[i].type = type

\* the card item supplies at least one action
HasActions(item) == Has(item, "actions") /\ Len(item.actions) > 0

\* C15 (as claimed): a CardItem with empty meta and no actions gives exactly
\* one block, the section; a context block appears iff at least one of owner,
\* date, status is present, and an actions block iff an action is supplied.
C15_FieldOmission ==
    call = "buildCard" =>
        /\ ret[1].type = "section"
        /\ (args.meta = Empty /\ ~HasActions(args)) => Len(ret) = 1
        /\ HasBlock(ret, "context") <=>
              (Has(args.meta, "owner") \/ Has(args.meta, "date")
               \/ Has(args.meta, "status"))
        /\ HasBlock(ret, "actions") <=> HasActions(args)

\* the field of meta is present with a non-empty value
Filled(meta, k) == Has(meta, k) /\ meta[k] # ""

\* C15 (amended): a CardItem with empty meta and no actions gives exactly one
\* block, the section; a context block appears iff at least one of owner,
\* date, status is present with a non-empty value (it is the second block),
\* and an actions block iff an action is supplied (it is the last block).
C15_FieldOmissionNonEmpty ==
    call = "buildCard" =>
        LET ctx == Filled(args.meta, "owner") \/ Filled(args.meta, "date")
                   \/ Filled(args.meta, "status")
        IN  /\ ret[1].type = "section"
            /\ (args.meta = Empty /\ ~HasActions(args)) => Len(ret) = 1
            /\ HasBlock(ret, "context") <=> ctx
            /\ HasBlock(ret, "actions") <=> HasActions(args)
            /\ Len(ret) = 1 + (IF ctx THEN 1 ELSE 0)
                            + (IF HasActions(args) THEN 1 ELSE 0)
            /\ ctx => ret[2].type = "context"
            /\ HasActions(args) => ret[Len(ret)].type = "actions"

C15_Witness ==
    /\ call = "buildCard"
    /\ args.meta = [owner |-> ""]
    /\ Has(args, "actions")
    /\ args.actions = <<>>
    /\ Len(ret) = 1
    /\ ret[1].type = "section"

\* C16: buildProjectNav returns the "Projects" context block, then exactly one
\* row per project in input order, then a divider; a row has the selected
\* marking (the bullet glyph and the "Open" button) iff its project's id is
\* the selected id, and otherwise the white bullet and the "View" button;
\* every row's button has action_id "nav_open_<id>" and the id as its value.
C16_ProjectNavRows ==
    call = "buildProjectNav" =>
        LET ps == args.projects IN
        /\ Len(ret) = Len(ps) + 2
        /\ ret[1] = [type |-> "context", elements |-> << Mrkdwn("*Projects*") >>]
        /\ IsDivider(ret[Len(ret)])
        /\ \A i \in 1..Len(ps) :
              LET row == ret[i + 1]
                  marked == args.selectedId = <<ps[i].id>>
              IN  /\ row.type = "section"
                  /\ row.block_id = "nav_" \o ps[i].id
                  /\ row.text.text =
                        (IF marked THEN "<U+2022>" ELSE "<U+25E6>")
                        \o " *" \o ps[i].name \o "*"
                  /\ row.accessory.type = "button"
                  /\ row.accessory.text.text = (IF marked THEN "Open" ELSE "View")
                  /\ row.accessory.action_id = "nav_open_" \o ps[i].id
                  /\ row.accessory.value = ps[i].id

C16_Witness ==
    /\ call = "buildProjectNav"
    /\ Len(args.projects) = 3
    /\ args.projects[1].id = "p2"
    /\ args.projects[2].id = "p1"
    /\ args.projects[3].id = OtherProject.id
    /\ args.selectedId = <<"p1">>
    /\ ret[2].accessory.text.text = "View"
    /\ ret[3].accessory.text.text = "Open"
    /\ ret[3].accessory.action_id = "nav_open_p1"
    /\ ret[4].accessory.text.text = "View"

\* C17: the actions block of a card has exactly one button per supplied
\* Action, in input order; each button's action_id is "card_action_" followed
\* by the Action's id, its text the Action's text, its value the card item's
\* id, and it carries a confirm payload (the Action's title and text) iff the
\* Action has one.
C17_CardActionButtons ==
    (call = "buildCard" /\ HasActions(args)) =>
        LET block == ret[Len(ret)]
            buttons == block.elements
        IN  /\ block.type = "actions"
            /\ Cardinality({ i \in 1..Len(ret) : ret[i].type = "actions" }) = 1
            /\ Len(buttons) = Len(args.actions)
            /\ \A i \in 1..Len(buttons) :
                  LET action == args.actions[i] IN
                  /\ buttons[i].type = "button"
                  /\ buttons[i].action_id = "card_action_" \o action.id
                  /\ buttons[i].text.text = action.text
                  /\ buttons[i].value = args.id
                  /\ Has(buttons[i], "confirm") <=> Has(action, "confirm")
                  /\ Has(action, "confirm") =>
                        /\ buttons[i].confirm.title.text = action.confirm.title
                        /\ buttons[i].confirm.text.text = action.confirm.text

C17_Witness ==
    /\ call = "buildCard"
    /\ HasActions(args)
    /\ Len(args.actions) = 2
    /\ args.actions[1].id = "delete"
    /\ Has(args.actions[1], "confirm")
    /\ ret[Len(ret)].elements[1].action_id = "card_action_delete"
    /\ ret[Len(ret)].elements[1].confirm.title.text = "Are you sure?"
    /\ ret[Len(ret)].elements[2].action_id = "card_action_view"
    /\ ~Has(ret[Len(ret)].elements[2], "confirm")
    /\ ret[Len(ret)].elements[2].value = "test-1"

\* C18: buildToggle returns one actions block with a single toggle button,
\* labelled "Collapse" when isExpanded and "Expand" otherwise, followed
\* verbatim by expandedView when isExpanded and by collapsedView otherwise:
\* the output has 1 plus the selected view's number of blocks.
C18_ToggleSelects ==
    call = "buildToggle" =>
        LET view == IF args.isExpanded THEN args.expandedView ELSE args.collapsedView
        IN  /\ Len(ret) = 1 + Len(view)
            /\ ret[1].type = "actions"
            /\ Len(ret[1].elements) = 1
            /\ ret[1].elements[1].type = "button"
            /\ ret[1].elements[1].action_id = "toggle_" \o args.id
            /\ ret[1].elements[1].text.text =
                  (IF args.isExpanded THEN "<U+1F53C> Collapse" ELSE "<U+1F53D> Expand")
            /\ Tail(ret) = view

C18_Witness ==
    /\ call = "buildToggle"
    /\ args.isExpanded
    /\ Len(args.expandedView) = 2
    /\ Len(args.collapsedView) = 1
    /\ Len(ret) = 3
    /\ BlockText(ret[2]) = "Expanded content"
    /\ BlockText(ret[3]) = "More details"

\* C19: buildEmptyState returns exactly two blocks: a section whose text
\* combines the icon, the bold title and the hint, and an actions block with
\* exactly one button, whose action_id is the cta's id and whose style is the
\* cta's style when it has one and "primary" when it has none.
C19_EmptyStateBlocks ==
    call = "buildEmptyState" =>
        /\ Len(ret) = 2
        /\ ret[1].type = "section"
        /\ BlockText(ret[1]) =
              args.icon \o " *" \o args.title \o "*\n" \o args.hint
        /\ ret[2].type = "actions"
        /\ Len(ret[2].elements) = 1
        /\ ret[2].elements[1].type = "button"
        /\ ret[2].elements[1].action_id = args.cta.id
        /\ ret[2].elements[1].text.text = args.cta.text
        /\ Has(ret[2].elements[1], "style")
        /\ ret[2].elements[1].style =
              (IF Has(args.cta, "style") THEN args.cta.style ELSE "primary")

C19_Witness ==
    /\ call = "buildEmptyState"
    /\ ~Has(args.cta, "style")
    /\ args.cta.id = "refresh"
    /\ ret[2].elements[1].action_id = "refresh"
    /\ ret[2].elements[1].style = "primary"

\* the state a token holds, and the selected project and active tab it records
TokenStates == [t \in TabTokens \cup OlderTokens |-> JSONparse(t).v]

TokenState(token) ==
    IF token \in DOMAIN TokenStates THEN TokenStates[token] ELSE JSONparse(token).v

SelectedIn(token) == GetProp(TokenState(token), "selectedProjectId")

\* the selected project recorded in the view published to a user, undefined
\* when the view records none or nothing is published yet
SelectedFor(pub) ==
    IF pub = <<>> THEN Undef ELSE SelectedIn(pub[1].private_metadata)

\* the selected project recorded in the view a tab_ action was sent with,
\* undefined when it was sent with none
SelectedOf(e) ==
    IF Has(e, "private_metadata") THEN SelectedIn(e.private_metadata) ELSE Undef

\* the step resumes one listener of the action e and runs it to its end
Handles(e) ==
    BagIn(e, inflight) /\ CopiesIn(e, inflight') = CopiesIn(e, inflight) - 1

\* v is the id of a project of the seed
IsProject(v) ==
    v.t = "string" /\ \E i \in 1..Len(projects) : projects[i].id = v.v

\* the step replaces the view published to u by one that records another
\* selected project
SelectedChanges(u) ==
    /\ published'[u] # published[u]
    /\ published[u] # <<>>
    /\ published'[u] # <<>>
    /\ SelectedFor(published'[u]) # SelectedFor(published[u])

\* the step publishes to the user of the tab_ action e the token
\* {selectedProjectId: the project recorded in e's view, activeTab: e's value}
PublishesProjectOf(e) ==
    /\ published'[e.user] # <<>>
    /\ TokenState(published'[e.user][1].private_metadata) =
          Obj(<< [k |-> "selectedProjectId", v |-> SelectedOf(e)],
                 [k |-> "activeTab", v |-> Str(e.value)] >>)

\* C21 (as claimed): a tab_ action with value X on a view whose token records
\* selectedProjectId = p, a project, publishes a view whose token is
\* {selectedProjectId: p, activeTab: X}; and the selected project recorded in
\* a user's published view changes only in a step that handles a nav_open_ or
\* an app_home_opened event of that user.
C21_TabPreservesProject ==
    [][ /\ \A e \in BagToSet(inflight) :
              (e.type = "tab" /\ Handles(e) /\ IsProject(SelectedOf(e))) =>
                 PublishesProjectOf(e)
        /\ \A u \in Users :
              SelectedChanges(u) =>
                 \/ HandleAppHomeOpened(u)
                 \/ \E e \in BagToSet(inflight) :
                       /\ Handles(e)
                       /\ e.user = u
                       /\ e.type = "nav_open"
      ]_vars

\* the tab_ action e comes from a view other than the one published to its
\* user now
FromAnotherView(e) ==
    \/ ~Has(e, "private_metadata")
    \/ published[e.user] = <<>>
    \/ e.private_metadata # published[e.user][1].private_metadata

\* C21 (amended): a tab_ action with value X sent from a view whose token
\* records selectedProjectId = p, the id of an existing project, publishes a
\* view whose token is {selectedProjectId: p, activeTab: X}; and the selected
\* project recorded in a user's published view changes only in a step that
\* handles an app_home_opened or a nav_open_ event of that user, or a tab_
\* action of that user which either was sent from a view other than the
\* published one and publishes the project of its own view, or was sent from
\* a view that records no existing project and publishes the first project.
C21_TabKeepsProjectOfItsView ==
    [][ /\ \A e \in BagToSet(inflight) :
              (e.type = "tab" /\ Handles(e) /\ IsProject(SelectedOf(e))) =>
                 PublishesProjectOf(e)
        /\ \A u \in Users :
              SelectedChanges(u) =>
                 \/ HandleAppHomeOpened(u)
                 \/ \E e \in BagToSet(inflight) :
                       /\ Handles(e)
                       /\ e.user = u
                       /\ \/ e.type = "nav_open"
                          \/ /\ e.type = "tab"
                             /\ IsProject(SelectedOf(e))
                             /\ FromAnotherView(e)
                             /\ SelectedFor(published'[u]) = SelectedOf(e)
                          \/ /\ e.type = "tab"
                             /\ ~IsProject(SelectedOf(e))
                             /\ SelectedFor(published'[u]) = Str(projects[1].id)
      ]_vars

\* a tab_ action with the value risks sent from a view of the second project
\* was handled: the view of the second project with the tab risks is published
C21_Witness ==
    /\ published["U1"] # <<>>
    /\ TokenState(published["U1"][1].private_metadata) =
          Obj(<< [k |-> "selectedProjectId", v |-> Str("p2")],
                 [k |-> "activeTab", v |-> Str("risks")] >>)
    /\ passed["U1"][1].activeTab = "risks"
    /\ passed["U1"][1].selectedProject.id = "p2"

\* C22: in every view published by the home handlers, the tasks and the risks
\* passed to buildHomeView all have the projectId that the view's state token
\* records as selectedProjectId, which is the id of the selected project
\* passed; when the token records no selected project, no project, no task
\* and no risk are passed.
C22_RecordsOfSelectedProject ==
    \A u \in Users :
        published[u] # <<>> =>
            LET params == passed[u][1]
                sel == SelectedFor(published[u])
            IN  /\ published[u][1] = buildHomeView(params)
                /\ sel.t \in {"string", "undefined"}
                /\ sel.t = "string" =>
                      /\ Has(params, "selectedProject")
                      /\ params.selectedProject.id = sel.v
                      /\ \A i \in 1..Len(params.tasks) : params.tasks[i].projectId = sel.v
                      /\ \A i \in 1..Len(params.risks) : params.risks[i].projectId = sel.v
                /\ sel.t = "undefined" =>
                      /\ ~Has(params, "selectedProject")
                      /\ params.tasks = <<>>
                      /\ params.risks = <<>>

C22_Witness ==
    /\ published["U1"] # <<>>
    /\ SelectedFor(published["U1"]) = Str("p2")
    /\ passed["U1"][1].activeTab = "tasks"
    /\ Len(passed["U1"][1].tasks) = 1
    /\ passed["U1"][1].tasks[1].id = "t3"
    /\ Len(passed["U1"][1].risks) = 1
    /\ passed["U1"][1].risks[1].id = "r2"

=============================================================================
